---- MODULE Spec2Model ----
(***************************************************************************)
(* Session log parsing and analytics engine of claude-code-chat-browser:   *)
(* the tool-result classifier, the event processors and the metadata       *)
(* accumulator of utils/jsonl_parser.py, the statistics engine of          *)
(* utils/session_stats.py and the rule evaluator of                        *)
(* utils/exclusion_rules.py.                                               *)
(*                                                                         *)
(* JSON values are tagged records: [t |-> "null"], [t |-> "int", v |-> n], *)
(* [t |-> "str", v |-> s], [t |-> "bool", v |-> b], [t |-> "list", v |->   *)
(* seq] and [t |-> "obj", v |-> f] with f a function from keys to values.  *)
(* A key that is absent from an object is absent from DOMAIN f, so that    *)
(* "absent" and "null" stay different, as they are for dict.get.           *)
(***************************************************************************)
EXTENDS Integers, Sequences, FiniteSets, TLC

VARIABLES
    pc,             \* where the run is: which call has been made so far
    tool_result,    \* the argument of _parse_tool_result
    trp,            \* what _parse_tool_result gave for it
    rules,          \* the tokenized exclusion rules, one token list per rule
    searchable_text,\* the text the rules are matched against
    excluded,       \* what is_excluded_by_rules gave for them
    file,           \* the lines of the session file parse_session has read
    session,        \* the session parse_session builds: its messages,
                    \* its metadata and, once parsed, its title
    stats,          \* what compute_stats gave for the parsed session
    error,          \* the exception that ended the run, "" if none
    rule_line,      \* a line of the exclusion rules file
    rule_tokens,    \* what _tokenize_rule gave for the line
    file_size,      \* the size in bytes of the session file
    quick_info,     \* what quick_session_info gave for the file
    state_file,     \* the export marker file: absent, not JSON, or a JSON value
    session_files,  \* what list_sessions gives: id, mtime and lines of each file
    last_run,       \* the last batch run: its operation, inputs and outcome
    recorded,       \* the sessions some run exported and recorded, unmodified since
    runs            \* the export runs in progress: what each has read and exported

vars == <<pc, tool_result, trp, rules, searchable_text, excluded,
          file, session, stats, error,
          rule_line, rule_tokens,
          file_size, quick_info,
          state_file, session_files, last_run,
          recorded, runs>>

classifyVars == <<tool_result, trp>>
ruleVars == <<rules, searchable_text, excluded>>
parseVars == <<file, session, stats, error>>
tokenVars == <<rule_line, rule_tokens>>
quickVars == <<file_size, quick_info>>
exportVars == <<state_file, session_files, last_run>>
runVars == <<recorded, runs>>

\* the variables of a component that a run does not use keep these values
ClassifyIdle == tool_result = [t |-> "null"] /\ trp = [t |-> "null"]
RulesIdle == rules = <<>> /\ searchable_text = "" /\ excluded = FALSE
TokenIdle == rule_line = "" /\ rule_tokens = <<>>
QuickIdle == file_size = 0 /\ quick_info = [t |-> "null"]
ExportIdle ==
    /\ state_file = [kind |-> "absent"]
    /\ session_files = <<>>
    /\ last_run = [t |-> "null"]
RunsIdle ==
    recorded = {} /\ runs = <<>>
ParseIdle ==
    /\ file = <<>> /\ session = [t |-> "null"]
    /\ stats = [t |-> "null"] /\ error = ""

---------------------------------------------------------------------------
(* JSON values and the Python idioms the code applies to them *)

None == [t |-> "null"]
JInt(n) == [t |-> "int", v |-> n]
JStr(s) == [t |-> "str", v |-> s]
JBool(b) == [t |-> "bool", v |-> b]
JList(s) == [t |-> "list", v |-> s]
JObj(f) == [t |-> "obj", v |-> f]
EmptyDict == [k \in {} |-> None]

\* isinstance(x, dict), isinstance(x, list), isinstance(x, str)
IsDict(x) == x.t = "obj"
IsList(x) == x.t = "list"
IsStr(x) == x.t = "str"

\* d.get(k, dflt) on the fields of a dict: the default applies only when the
\* key is absent, a key that is present with null gives null
Get(d, k, dflt) == IF k \in DOMAIN d THEN d[k] ELSE dflt

\* bool(x): None, 0, "", False, [] and {} are falsy
Truthy(x) ==
    CASE x.t = "null" -> FALSE
      [] x.t = "int" -> x.v # 0
      [] x.t = "str" -> x.v # ""
      [] x.t = "bool" -> x.v
      [] x.t = "list" -> x.v # <<>>
      [] x.t = "obj" -> DOMAIN x.v # {}

\* x or y
Or(x, y) == IF Truthy(x) THEN x ELSE y

\* len(x) is defined for lists, dicts and strings and raises TypeError for
\* None, numbers and booleans
HasLen(x) == x.t \in {"list", "obj", "str"}
PyLen(x) ==
    CASE x.t = "list" -> Len(x.v)
      [] x.t = "obj" -> Cardinality(DOMAIN x.v)
      [] x.t = "str" -> Len(x.v)

\* an exception leaving a function
Raise(e) == [exc |-> e]
IsRaise(r) == "exc" \in DOMAIN r

---------------------------------------------------------------------------
(* utils/jsonl_parser.py: _parse_tool_result *)

Has(tr, k) == k \in DOMAIN tr

\* Each branch of the if-chain, in the order of the source.  tr is the dict
\* behind tool_result; the function has returned None before for a non-dict.
ParseToolResultDict(tr, slug) ==
    LET result == [slug |-> slug] IN
    IF Has(tr, "stdout") \/ Has(tr, "stderr") THEN
        result @@ [result_type |-> JStr("bash"),
                   stdout |-> Get(tr, "stdout", JStr("")),
                   stderr |-> Get(tr, "stderr", JStr("")),
                   exit_code |-> Get(tr, "exitCode", None),
                   interrupted |-> Get(tr, "interrupted", JBool(FALSE)),
                   is_error |-> Get(tr, "is_error", JBool(FALSE)),
                   return_code_interpretation |->
                       Get(tr, "returnCodeInterpretation", None)]
    ELSE IF Has(tr, "structuredPatch")
            \/ (Has(tr, "filePath") /\ Has(tr, "newString")) THEN
        result @@ [result_type |-> JStr("file_edit"),
                   file_path |-> Get(tr, "filePath", JStr("")),
                   replace_all |-> Get(tr, "replaceAll", JBool(FALSE))]
    ELSE IF Has(tr, "filePath") /\ Has(tr, "content") THEN
        result @@ [result_type |-> JStr("file_write"),
                   file_path |-> Get(tr, "filePath", JStr(""))]
    ELSE IF Has(tr, "filenames") /\ IsList(Get(tr, "filenames", None)) THEN
        result @@ [result_type |-> JStr("glob"),
                   num_files |-> Get(tr, "numFiles", JInt(PyLen(tr["filenames"]))),
                   truncated |-> Get(tr, "truncated", JBool(FALSE)),
                   duration_ms |-> Get(tr, "durationMs", None)]
    ELSE IF Has(tr, "mode") /\ Has(tr, "numFiles") THEN
        result @@ [result_type |-> JStr("grep"),
                   mode |-> Get(tr, "mode", None),
                   num_files |-> Get(tr, "numFiles", JInt(0)),
                   num_lines |-> Get(tr, "numLines", JInt(0)),
                   duration_ms |-> Get(tr, "durationMs", None)]
    ELSE IF Has(tr, "file") /\ IsDict(tr["file"]) THEN
        result @@ [result_type |-> JStr("file_read"),
                   file_path |-> Get(tr["file"].v, "filePath", JStr("")),
                   num_lines |-> Get(tr["file"].v, "numLines", None)]
    ELSE IF Has(tr, "query") /\ Has(tr, "results") THEN
        \* len(tool_result.get("results", [])) raises for a value without len
        IF ~HasLen(Get(tr, "results", JList(<<>>))) THEN Raise("TypeError")
        ELSE
        result @@ [result_type |-> JStr("web_search"),
                   query |-> Get(tr, "query", JStr("")),
                   result_count |-> JInt(PyLen(Get(tr, "results", JList(<<>>)))),
                   duration_seconds |-> Get(tr, "durationSeconds", None)]
    ELSE IF Has(tr, "url") /\ Has(tr, "code") THEN
        result @@ [result_type |-> JStr("web_fetch"),
                   url |-> Get(tr, "url", JStr("")),
                   status_code |-> Get(tr, "code", None),
                   duration_ms |-> Get(tr, "durationMs", None)]
    ELSE IF Has(tr, "task_id") \/ Has(tr, "message") THEN
        result @@ [result_type |-> JStr("task"),
                   task_id |-> Get(tr, "task_id", None),
                   task_type |-> Get(tr, "task_type", None)]
    ELSE IF Has(tr, "retrieval_status") /\ Has(tr, "task") THEN
        LET task_obj == IF IsDict(tr["task"]) THEN tr["task"].v ELSE EmptyDict IN
        result @@ [result_type |-> JStr("task"),
                   retrieval_status |-> Get(tr, "retrieval_status", None),
                   task_id |-> Get(task_obj, "task_id", None)]
    ELSE IF Has(tr, "agentId") /\ Has(tr, "totalDurationMs") THEN
        result @@ [result_type |-> JStr("task"),
                   agent_id |-> Get(tr, "agentId", None),
                   status |-> Get(tr, "status", None),
                   total_duration_ms |-> Get(tr, "totalDurationMs", None),
                   total_tokens |-> Get(tr, "totalTokens", None),
                   total_tool_use_count |-> Get(tr, "totalToolUseCount", None)]
    ELSE IF Has(tr, "agentId") /\ Has(tr, "isAsync") THEN
        result @@ [result_type |-> JStr("task"),
                   agent_id |-> Get(tr, "agentId", None),
                   status |-> Get(tr, "status", None),
                   description |-> Get(tr, "description", None)]
    ELSE IF Has(tr, "newTodos") \/ Has(tr, "oldTodos") THEN
        LET new_todos == Get(tr, "newTodos", JList(<<>>)) IN
        result @@ [result_type |-> JStr("todo_write"),
                   todo_count |-> IF IsList(new_todos)
                                  THEN JInt(PyLen(new_todos)) ELSE JInt(0),
                   todos |-> IF IsList(new_todos) THEN new_todos ELSE JList(<<>>)]
    ELSE IF Has(tr, "questions") /\ Has(tr, "answers") THEN
        result @@ [result_type |-> JStr("user_input"),
                   questions |-> Get(tr, "questions", JList(<<>>)),
                   answers |-> Get(tr, "answers", JObj(EmptyDict))]
    ELSE IF Has(tr, "plan") /\ Has(tr, "filePath") THEN
        result @@ [result_type |-> JStr("plan"),
                   file_path |-> Get(tr, "filePath", JStr(""))]
    ELSE
        result @@ [result_type |-> JStr("unknown")]

\* _parse_tool_result(tool_result, slug): None for a non-dict, a Raise for an
\* exception, otherwise the classified record
_parse_tool_result(tr, slug) ==
    IF ~IsDict(tr) THEN None ELSE ParseToolResultDict(tr.v, slug)

\* The keys the if-chain tests
RuleKeys ==
    {"stdout", "stderr", "structuredPatch", "filePath", "newString", "content",
     "filenames", "mode", "numFiles", "file", "query", "results", "url", "code",
     "task_id", "message", "retrieval_status", "task", "agentId",
     "totalDurationMs", "isAsync", "newTodos", "oldTodos", "questions",
     "answers", "plan"}

\* The values a key of the result object is given here: the type the producer
\* writes, and null; for the keys whose value the code inspects (isinstance,
\* len) both are drawn.
ValueChoices(k) ==
    CASE k = "filenames" -> {JList(<<JStr("a.py")>>), None}
      [] k = "file" -> {JObj([filePath |-> JStr("a.py")]), None}
      [] k = "results" -> {JList(<<>>), None}
      [] k = "task" -> {JObj([task_id |-> JStr("t1")]), None}
      [] k = "newTodos" -> {JList(<<>>), None}
      [] k = "numFiles" -> {JInt(1)}
      [] OTHER -> {JStr("v")}

\* An object holds at most MaxKeys of the keys
MaxKeys == 4

\* Inputs that are not objects: null, a string, a number, a list
NonDictInputs == {None, JStr("text"), JInt(1), JList(<<>>)}

ClassifyInit ==
    /\ RunsIdle
    /\ ExportIdle
    /\ QuickIdle
    /\ TokenIdle
    /\ RulesIdle
    /\ ParseIdle
    /\ pc = "build"
    /\ tool_result \in NonDictInputs \cup {JObj(EmptyDict)}
    /\ trp = None

\* the producer writes one more key into the result object
SetKey ==
    /\ pc = "build"
    /\ IsDict(tool_result)
    /\ Cardinality(DOMAIN tool_result.v) < MaxKeys
    /\ \E k \in RuleKeys \ DOMAIN tool_result.v : \E val \in ValueChoices(k) :
           tool_result' = JObj(tool_result.v @@ (k :> val))
    /\ UNCHANGED <<pc, trp, ruleVars, parseVars, tokenVars,
                 quickVars, exportVars, runVars>>

\* the call _parse_tool_result(tool_result, slug)
Classify ==
    /\ pc = "build"
    /\ \E slug \in {None, JStr("my-slug")} :
           trp' = _parse_tool_result(tool_result, slug)
    /\ pc' = "classified"
    /\ UNCHANGED <<tool_result, ruleVars, parseVars, tokenVars,
                 quickVars, exportVars, runVars>>

ClassifyNext == SetKey \/ Classify

SpecClassify == ClassifyInit /\ [][ClassifyNext]_vars

---------------------------------------------------------------------------
(* utils/jsonl_parser.py: content normalisation and extraction.  A content
   part is the field function of a dict; texts and image lists are returned
   as JStr and JList, or as a Raise when the Python code raises *)

\* dict keys and set members must be hashable: lists and dicts are not
Hashable(x) == x.t \notin {"list", "obj"}

RECURSIVE NormalizeList(_)
NormalizeList(parts) ==
    IF parts = <<>> THEN <<>>
    ELSE LET part == Head(parts)
             rest == NormalizeList(Tail(parts))
         IN IF IsStr(part) THEN <<[type |-> JStr("text"), text |-> part]>> \o rest
            ELSE IF IsDict(part) THEN <<part.v>> \o rest
            ELSE rest

_normalize_content(content) ==
    IF IsStr(content) THEN <<[type |-> JStr("text"), text |-> content]>>
    ELSE IF IsList(content) THEN NormalizeList(content.v)
    ELSE <<>>

\* sep.join(items): TypeError unless every item is a str
RECURSIVE JoinStrings(_, _)
JoinStrings(items, sep) ==
    IF items = <<>> THEN ""
    ELSE IF Len(items) = 1 THEN items[1].v
    ELSE items[1].v \o sep \o JoinStrings(Tail(items), sep)

Join(items, sep) ==
    IF \E i \in 1..Len(items) : ~IsStr(items[i]) THEN Raise("TypeError")
    ELSE JStr(JoinStrings(items, sep))

IsTextPart(part) == Get(part, "type", None) = JStr("text")
TextOf(part) == Get(part, "text", JStr(""))

\* [F(x) for x in seq]
MapSeq(seq, F(_)) == [i \in 1..Len(seq) |-> F(seq[i])]

_extract_text(content_parts) ==
    LET parts == _normalize_content(content_parts)
        texts == MapSeq(SelectSeq(parts, IsTextPart), TextOf)
    IN Join(texts, "\n")

\* the image of one {"type": "image"} block: source.get raises when the
\* source is present and not a dict
SourceImages(part) ==
    LET source == Get(part, "source", JObj(EmptyDict)) IN
    IF ~IsDict(source) THEN Raise("AttributeError")
    ELSE IF Get(source.v, "type", None) = JStr("base64")
            /\ Truthy(Get(source.v, "data", None))
    THEN JList(<<[media_type |-> Get(source.v, "media_type", JStr("image/png")),
                  data |-> source.v["data"]]>>)
    ELSE JList(<<>>)

\* the lists of a sequence of JList results put end to end, or the first
\* Raise among them
RECURSIVE ConcatOrRaise(_)
ConcatOrRaise(results) ==
    IF results = <<>> THEN JList(<<>>)
    ELSE IF IsRaise(Head(results)) THEN Head(results)
    ELSE LET rest == ConcatOrRaise(Tail(results)) IN
         IF IsRaise(rest) THEN rest ELSE JList(Head(results).v \o rest.v)

IsImageSub(sub) == IsDict(sub) /\ Get(sub.v, "type", None) = JStr("image")
SubImages(sub) == SourceImages(sub.v)

PartImages(part) ==
    IF Get(part, "type", None) = JStr("image") THEN SourceImages(part)
    ELSE IF Get(part, "type", None) = JStr("tool_result") THEN
        LET nested == Get(part, "content", JList(<<>>)) IN
        IF IsList(nested)
        THEN ConcatOrRaise(MapSeq(SelectSeq(nested.v, IsImageSub), SubImages))
        ELSE JList(<<>>)
    ELSE JList(<<>>)

_extract_images(content_parts) ==
    ConcatOrRaise(MapSeq(_normalize_content(content_parts), PartImages))

---------------------------------------------------------------------------
(* utils/jsonl_parser.py: the metadata accumulator and the event processors.
   A processor gives [messages |-> .., metadata |-> ..], the two arguments it
   mutates, or a Raise when the Python code raises. *)

\* the metadata dict parse_session starts from
InitMetadata ==
    [session_id |-> JStr("session-1"),
     models_used |-> {},
     total_input_tokens |-> 0,
     total_output_tokens |-> 0,
     total_cache_read_tokens |-> 0,
     total_cache_creation_tokens |-> 0,
     total_tool_calls |-> 0,
     tool_call_counts |-> EmptyDict,
     first_timestamp |-> None,
     last_timestamp |-> None,
     version |-> None,
     cwd |-> None,
     git_branch |-> None,
     permission_mode |-> None,
     compactions |-> 0,
     total_ephemeral_5m_tokens |-> 0,
     total_ephemeral_1h_tokens |-> 0,
     service_tiers |-> {},
     session_wall_time_seconds |-> None,
     compact_boundaries |-> <<>>,
     api_errors |-> 0,
     files_read |-> {},
     files_written |-> {},
     files_created |-> {},
     bash_commands |-> <<>>,
     web_fetches |-> <<>>,
     sidechain_messages |-> 0,
     stop_reasons |-> EmptyDict,
     entry_counts |-> EmptyDict]

\* a histogram that sets the count of a key only when the key is new
IncrOnlyNewKeys(d, k) == IF k \in DOMAIN d THEN d ELSE d @@ (k :> 1)

\* d[k] = d.get(k, 0) + 1
Incr(d, k) == IF k \in DOMAIN d THEN [d EXCEPT ![k] = @ + 1] ELSE d @@ (k :> 1)

\* the number that `total += x` adds for a JSON value x: an int adds its
\* value, a bool adds 0 or 1, any other type raises TypeError
IsNumber(x) == x.t \in {"int", "bool"}
NumberOf(x) == IF x.t = "int" THEN x.v ELSE IF x.v THEN 1 ELSE 0

_track_file_activity(tool_name, tool_input, metadata) ==
    LET fp == Get(tool_input, "file_path", JStr("")) IN
    IF tool_name = JStr("Read") /\ Truthy(fp) THEN
        IF ~Hashable(fp) THEN Raise("TypeError")
        ELSE [metadata EXCEPT !.files_read = @ \cup {fp}]
    ELSE IF tool_name = JStr("Write") /\ Truthy(fp) THEN
        IF ~Hashable(fp) THEN Raise("TypeError")
        ELSE [metadata EXCEPT !.files_created = @ \cup {fp}]
    ELSE IF tool_name = JStr("Edit") /\ Truthy(fp) THEN
        IF ~Hashable(fp) THEN Raise("TypeError")
        ELSE [metadata EXCEPT !.files_written = @ \cup {fp}]
    ELSE IF tool_name = JStr("Bash") THEN
        LET cmd == Get(tool_input, "command", JStr("")) IN
        IF Truthy(cmd) THEN [metadata EXCEPT !.bash_commands = Append(@, cmd)]
        ELSE metadata
    ELSE IF tool_name \in {JStr("WebFetch"), JStr("WebSearch")} THEN
        LET url_or_query == Or(Get(tool_input, "url", None),
                               Get(tool_input, "query", JStr(""))) IN
        IF Truthy(url_or_query)
        THEN [metadata EXCEPT !.web_fetches = Append(@, url_or_query)]
        ELSE metadata
    ELSE metadata

\* a capture that takes the value of every record that has the key
LastSeen(old, entry, key) == Get(entry, key, old)

\* if metadata[field] is None: metadata[field] = entry.get(key)
FirstSeen(old, entry, key) == IF old = None THEN Get(entry, key, None) ELSE old

_process_user(entry, messages, metadata) ==
    LET md == [metadata EXCEPT
                  !.version = FirstSeen(@, entry, "version"),
                  !.cwd = FirstSeen(@, entry, "cwd"),
                  !.git_branch = FirstSeen(@, entry, "gitBranch"),
                  !.permission_mode = FirstSeen(@, entry, "permissionMode")]
        msg == Get(entry, "message", JObj(EmptyDict))
    IN
    IF ~IsDict(msg) THEN Raise("AttributeError") ELSE
    LET content == Get(msg.v, "content", JList(<<>>))
        text == _extract_text(content)
    IN
    IF IsRaise(text) THEN text ELSE
    LET images == _extract_images(content) IN
    IF IsRaise(images) THEN images ELSE
    LET tr == Get(entry, "toolUseResult", None)
        tool_result_parsed == _parse_tool_result(tr, Get(entry, "slug", None))
    IN
    IF IsRaise(tool_result_parsed) THEN tool_result_parsed ELSE
    LET tr_images ==
            IF IsDict(tr) /\ Has(tr.v, "content") /\ IsList(tr.v["content"])
            THEN _extract_images(tr.v["content"])
            ELSE JList(<<>>)
    IN
    IF IsRaise(tr_images) THEN tr_images ELSE
    LET all_images == images.v \o tr_images.v IN
    [messages |-> Append(messages,
        [role |-> "user",
         uuid |-> Get(entry, "uuid", None),
         parent_uuid |-> Get(entry, "parentUuid", None),
         timestamp |-> Get(entry, "timestamp", None),
         text |-> text,
         images |-> IF all_images # <<>> THEN JList(all_images) ELSE None,
         is_sidechain |-> Get(entry, "isSidechain", JBool(FALSE)),
         tool_result |-> tr,
         tool_result_parsed |-> tool_result_parsed,
         slug |-> Get(entry, "slug", None)]),
     metadata |-> md]

\* the `for part in content_parts` loop of _process_assistant: acc holds
\* text_parts, thinking_parts, tool_uses and the metadata
RECURSIVE PartsLoop(_, _)
PartsLoop(parts, acc) ==
    IF parts = <<>> \/ IsRaise(acc) THEN acc
    ELSE
    LET part == Head(parts)
        ptype == Get(part, "type", None)
    IN
    IF ptype = JStr("text") THEN
        PartsLoop(Tail(parts),
                  [acc EXCEPT !.text_parts = Append(@, Get(part, "text", JStr("")))])
    ELSE IF ptype = JStr("thinking") THEN
        PartsLoop(Tail(parts),
                  [acc EXCEPT !.thinking_parts =
                                  Append(@, Get(part, "thinking", JStr("")))])
    ELSE IF ptype = JStr("tool_use") THEN
        LET tool_name == Get(part, "name", JStr("unknown"))
            tool_input == Get(part, "input", JObj(EmptyDict))
        IN
        IF ~Hashable(tool_name) THEN Raise("TypeError") ELSE
        LET md == [acc.metadata EXCEPT
                      !.total_tool_calls = @ + 1,
                      !.tool_call_counts = Incr(@, tool_name)]
            safe_input == IF IsDict(tool_input) THEN tool_input.v ELSE EmptyDict
            tracked == _track_file_activity(tool_name, safe_input, md)
        IN
        IF IsRaise(tracked) THEN tracked ELSE
        PartsLoop(Tail(parts),
                  [acc EXCEPT
                      !.tool_uses = Append(@, [id |-> Get(part, "id", None),
                                               name |-> tool_name,
                                               input |-> tool_input]),
                      !.metadata = tracked])
    ELSE PartsLoop(Tail(parts), acc)

\* the token accounting of _process_assistant: `total += usage.get(k) or 0`
\* for the four totals and the two ephemeral totals
TokenFields ==
    <<<<"total_input_tokens", "input_tokens">>,
      <<"total_output_tokens", "output_tokens">>,
      <<"total_cache_read_tokens", "cache_read_input_tokens">>,
      <<"total_cache_creation_tokens", "cache_creation_input_tokens">>>>

EphemeralFields ==
    <<<<"total_ephemeral_5m_tokens", "ephemeral_5m_input_tokens">>,
      <<"total_ephemeral_1h_tokens", "ephemeral_1h_input_tokens">>>>

\* the lookup without the `or 0`
UsageValueAsGiven(usage, key) == Get(usage, key, None)

UsageValue(usage, key) == Or(Get(usage, key, None), JInt(0))

RECURSIVE AddTokens(_, _, _)
AddTokens(fields, usage, metadata) ==
    IF fields = <<>> \/ IsRaise(metadata) THEN metadata
    ELSE LET total == Head(fields)[1]
             x == UsageValue(usage, Head(fields)[2])
         IN IF ~IsNumber(x) THEN Raise("TypeError")
            ELSE AddTokens(Tail(fields), usage,
                           [metadata EXCEPT ![total] = @ + NumberOf(x)])

_process_assistant(entry, messages, metadata) ==
    LET msg == Get(entry, "message", JObj(EmptyDict)) IN
    IF ~IsDict(msg) THEN Raise("AttributeError") ELSE
    LET model == Get(msg.v, "model", JStr("")) IN
    IF Truthy(model) /\ model # JStr("<synthetic>") /\ ~Hashable(model)
    THEN Raise("TypeError") ELSE
    LET md1 == IF Truthy(model) /\ model # JStr("<synthetic>")
               THEN [metadata EXCEPT !.models_used = @ \cup {model}]
               ELSE metadata
        md2 == IF Truthy(Get(entry, "isApiErrorMessage", None))
               THEN [md1 EXCEPT !.api_errors = @ + 1]
               ELSE md1
        usage == Get(msg.v, "usage", JObj(EmptyDict))
    IN
    IF ~IsDict(usage) THEN Raise("AttributeError") ELSE
    LET md3 == AddTokens(TokenFields, usage.v, md2) IN
    IF IsRaise(md3) THEN md3 ELSE
    LET cache_creation == Get(usage.v, "cache_creation", JObj(EmptyDict))
        md4 == IF IsDict(cache_creation)
               THEN AddTokens(EphemeralFields, cache_creation.v, md3)
               ELSE md3
    IN
    IF IsRaise(md4) THEN md4 ELSE
    LET tier == Get(usage.v, "service_tier", None) IN
    IF Truthy(tier) /\ ~Hashable(tier) THEN Raise("TypeError") ELSE
    LET md5 == IF Truthy(tier)
               THEN [md4 EXCEPT !.service_tiers = @ \cup {tier}]
               ELSE md4
        stop_reason == Get(msg.v, "stop_reason", JStr(""))
    IN
    IF Truthy(stop_reason) /\ ~Hashable(stop_reason) THEN Raise("TypeError") ELSE
    LET md6 == IF Truthy(stop_reason)
               THEN [md5 EXCEPT !.stop_reasons = Incr(@, stop_reason)]
               ELSE md5
        content_parts == _normalize_content(Get(msg.v, "content", JList(<<>>)))
        loop == PartsLoop(content_parts,
                          [text_parts |-> <<>>, thinking_parts |-> <<>>,
                           tool_uses |-> <<>>, metadata |-> md6])
    IN
    IF IsRaise(loop) THEN loop ELSE
    LET text == Join(loop.text_parts, "\n") IN
    IF IsRaise(text) THEN text ELSE
    LET thinking == IF loop.thinking_parts # <<>>
                    THEN Join(loop.thinking_parts, "\n\n")
                    ELSE None
    IN
    IF IsRaise(thinking) THEN thinking ELSE
    [messages |-> Append(messages,
        [role |-> "assistant",
         uuid |-> Get(entry, "uuid", None),
         parent_uuid |-> Get(entry, "parentUuid", None),
         timestamp |-> Get(entry, "timestamp", None),
         model |-> model,
         stop_reason |-> stop_reason,
         text |-> text,
         thinking |-> thinking,
         tool_uses |-> IF loop.tool_uses # <<>> THEN JList(loop.tool_uses)
                       ELSE None,
         is_sidechain |-> Get(entry, "isSidechain", JBool(FALSE)),
         is_api_error |-> Get(entry, "isApiErrorMessage", JBool(FALSE)),
         usage |-> [input_tokens |-> UsageValue(usage.v, "input_tokens"),
                    output_tokens |-> UsageValue(usage.v, "output_tokens"),
                    cache_read |-> UsageValue(usage.v, "cache_read_input_tokens"),
                    cache_creation |->
                        UsageValue(usage.v, "cache_creation_input_tokens"),
                    service_tier |-> Get(usage.v, "service_tier", None)]]),
     metadata |-> loop.metadata]

_process_system(entry, messages, metadata) ==
    LET subtype == Get(entry, "subtype", JStr(""))
        compact_meta == Get(entry, "compactMetadata", None)
        md == IF subtype = JStr("compact_boundary")
              THEN [metadata EXCEPT
                       !.compactions = @ + 1,
                       !.compact_boundaries =
                           IF IsDict(compact_meta)
                           THEN Append(@,
                                  [timestamp |-> Get(entry, "timestamp", None),
                                   trigger |-> Get(compact_meta.v, "trigger", None),
                                   pre_tokens |->
                                       Get(compact_meta.v, "preTokens", None)])
                           ELSE @]
              ELSE metadata
    IN
    [messages |-> Append(messages,
        [role |-> "system",
         uuid |-> Get(entry, "uuid", None),
         parent_uuid |-> Get(entry, "parentUuid", None),
         timestamp |-> Get(entry, "timestamp", None),
         subtype |-> subtype,
         content |-> Get(entry, "content", JStr("")),
         is_sidechain |-> Get(entry, "isSidechain", JBool(FALSE))]),
     metadata |-> md]

\* a processor that counts the tool use a progress record is correlated to
ProgressCountsToolUse(entry, messages, metadata) ==
    [messages |-> Append(messages,
        [role |-> "progress", uuid |-> Get(entry, "uuid", None)]),
     metadata |-> [metadata EXCEPT !.total_tool_calls = @ + 1]]

\* a processor that puts the progress message at the head of the list
ProgressPutFirst(entry, messages, metadata) ==
    [messages |-> <<[role |-> "progress",
                     uuid |-> Get(entry, "uuid", None)]>> \o messages,
     metadata |-> metadata]

_process_progress(entry, messages, metadata) ==
    LET data == Get(entry, "data", JObj(EmptyDict)) IN
    IF ~IsDict(data) THEN Raise("AttributeError") ELSE
    [messages |-> Append(messages,
        [role |-> "progress",
         uuid |-> Get(entry, "uuid", None),
         parent_uuid |-> Get(entry, "parentUuid", None),
         timestamp |-> Get(entry, "timestamp", None),
         progress_type |-> Get(data.v, "type", JStr("")),
         data |-> data,
         tool_use_id |-> Get(entry, "toolUseID", None),
         parent_tool_use_id |-> Get(entry, "parentToolUseID", None),
         is_sidechain |-> Get(entry, "isSidechain", JBool(FALSE))]),
     metadata |-> metadata]

---------------------------------------------------------------------------
(* utils/jsonl_parser.py: _strip_system_tags and _infer_title, on strings *)

UpperLetters == "ABCDEFGHIJKLMNOPQRSTUVWXYZ"
LowerLetters == "abcdefghijklmnopqrstuvwxyz"

\* str.lower() on the letters of the alphabet, character by character
LowerMap ==
    [c \in {SubSeq(UpperLetters, i, i) : i \in 1..Len(UpperLetters)} |->
        LET i == CHOOSE j \in 1..Len(UpperLetters) :
                     SubSeq(UpperLetters, j, j) = c
        IN SubSeq(LowerLetters, i, i)]
LowerChar(c) == IF c \in DOMAIN LowerMap THEN LowerMap[c] ELSE c

RECURSIVE Lower(_)
Lower(str) ==
    IF str = "" THEN ""
    ELSE LowerChar(SubSeq(str, 1, 1)) \o Lower(SubSeq(str, 2, Len(str)))

\* a in b, for strings
Contains(b, a) ==
    \E i \in 1..(Len(b) - Len(a) + 1) : SubSeq(b, i, i + Len(a) - 1) = a

StartsWithAt(str, i, pat) ==
    /\ i + Len(pat) - 1 <= Len(str)
    /\ SubSeq(str, i, i + Len(pat) - 1) = pat

\* the least position >= from at which pat occurs in str, or 0
Find(str, pat, from) ==
    IF \E i \in from..Len(str) : StartsWithAt(str, i, pat)
    THEN CHOOSE i \in from..Len(str) :
             /\ StartsWithAt(str, i, pat)
             /\ \A j \in from..(i - 1) : ~StartsWithAt(str, j, pat)
    ELSE 0

\* re.sub(r"<tag>[\s\S]*?</tag>", "", text): each opening tag is removed
\* with everything up to the nearest closing tag after it
RECURSIVE RemoveBlocks(_, _)
RemoveBlocks(str, tag) ==
    LET open == "<" \o tag \o ">"
        close == "</" \o tag \o ">"
        i == Find(str, open, 1)
        j == IF i = 0 THEN 0 ELSE Find(str, close, i + Len(open))
    IN IF i = 0 \/ j = 0 THEN str
       ELSE SubSeq(str, 1, i - 1)
            \o RemoveBlocks(SubSeq(str, j + Len(close), Len(str)), tag)

BlockTags ==
    <<"system-reminder", "ide_opened_file", "user-prompt-submit-hook",
      "claude_background_info", "fast_mode_info", "env">>

RECURSIVE RemoveAllBlocks(_, _)
RemoveAllBlocks(str, tags) ==
    IF tags = <<>> THEN str
    ELSE RemoveAllBlocks(RemoveBlocks(str, Head(tags)), Tail(tags))

\* \w of the regular expressions, on ASCII
WordChars ==
    {SubSeq(UpperLetters, i, i) : i \in 1..Len(UpperLetters)}
    \cup {SubSeq(LowerLetters, i, i) : i \in 1..Len(LowerLetters)}
    \cup {"0", "1", "2", "3", "4", "5", "6", "7", "8", "9", "_"}

\* the end of the run of word characters that starts at i (i - 1 if none)
RECURSIVE WordRunEnd(_, _)
WordRunEnd(str, i) ==
    IF i <= Len(str) /\ SubSeq(str, i, i) \in WordChars
    THEN WordRunEnd(str, i + 1)
    ELSE i - 1

\* the names of r"</?(?:ide_selection|local-command-stdout|
\* local-command-stderr|command-name|antml:\w+|function_calls|example\w*)>"
FixedTagNames ==
    {"ide_selection", "local-command-stdout", "local-command-stderr",
     "command-name", "function_calls"}

\* the position of the ">" that ends a tag of that expression whose name
\* starts at position k, or 0
TagNameEnd(str, k) ==
    IF \E n \in FixedTagNames : StartsWithAt(str, k, n \o ">")
    THEN k + Len(CHOOSE n \in FixedTagNames : StartsWithAt(str, k, n \o ">"))
    ELSE IF StartsWithAt(str, k, "antml:")
            /\ WordRunEnd(str, k + 6) >= k + 6
            /\ StartsWithAt(str, WordRunEnd(str, k + 6) + 1, ">")
    THEN WordRunEnd(str, k + 6) + 1
    ELSE IF StartsWithAt(str, k, "example")
            /\ StartsWithAt(str, WordRunEnd(str, k + 7) + 1, ">")
    THEN WordRunEnd(str, k + 7) + 1
    ELSE 0

\* the position of the ">" of a tag that starts at i, or 0
TagEnd(str, i) ==
    IF ~StartsWithAt(str, i, "<") THEN 0
    ELSE IF StartsWithAt(str, i, "</") /\ TagNameEnd(str, i + 2) # 0
    THEN TagNameEnd(str, i + 2)
    ELSE TagNameEnd(str, i + 1)

RECURSIVE RemoveTags(_, _)
RemoveTags(str, i) ==
    IF i > Len(str) THEN ""
    ELSE IF TagEnd(str, i) # 0 THEN RemoveTags(str, TagEnd(str, i) + 1)
    ELSE SubSeq(str, i, i) \o RemoveTags(str, i + 1)

\* str.strip()
Whitespace == {" ", "\n", "\t", "\r"}
RECURSIVE LStrip(_)
LStrip(str) ==
    IF str # "" /\ SubSeq(str, 1, 1) \in Whitespace
    THEN LStrip(SubSeq(str, 2, Len(str)))
    ELSE str
RECURSIVE RStrip(_)
RStrip(str) ==
    IF str # "" /\ SubSeq(str, Len(str), Len(str)) \in Whitespace
    THEN RStrip(SubSeq(str, 1, Len(str) - 1))
    ELSE str
Strip(str) == LStrip(RStrip(str))

_strip_system_tags(text) == Strip(RemoveTags(RemoveAllBlocks(text, BlockTags), 1))

TitleLen == 100
UntitledSession == "Untitled Session"

\* clean.split("\n")[0][:100]
FirstLine(text) ==
    LET nl == Find(text, "\n", 1)
        line == IF nl = 0 THEN text ELSE SubSeq(text, 1, nl - 1)
    IN IF Len(line) > TitleLen THEN SubSeq(line, 1, TitleLen) ELSE line

\* the title the text of a user message gives, "" if it gives none
TitleOfText(text) == FirstLine(Strip(_strip_system_tags(text)))

RECURSIVE _infer_title(_)
_infer_title(messages) ==
    IF messages = <<>> THEN UntitledSession
    ELSE LET msg == Head(messages) IN
         IF msg.role = "user" /\ Truthy(msg.text) /\ TitleOfText(msg.text.v) # ""
         THEN TitleOfText(msg.text.v)
         ELSE _infer_title(Tail(messages))

---------------------------------------------------------------------------
(* utils/jsonl_parser.py: the wall-clock computation of parse_session.
   datetime.fromisoformat is modelled on the grammar
       YYYY-MM-DD [ "T" HH:MM:SS [ "." fff ] [ ("+" | "-") HH:MM ] ]
   (a "Z" has been replaced by "+00:00" before the call); any other string
   gives ValueError. *)

DigitVal == [c \in {"0", "1", "2", "3", "4", "5", "6", "7", "8", "9"} |->
                CASE c = "0" -> 0 [] c = "1" -> 1 [] c = "2" -> 2 [] c = "3" -> 3
                  [] c = "4" -> 4 [] c = "5" -> 5 [] c = "6" -> 6 [] c = "7" -> 7
                  [] c = "8" -> 8 [] c = "9" -> 9]

IsDigits(str) ==
    /\ str # ""
    /\ \A i \in 1..Len(str) : SubSeq(str, i, i) \in DOMAIN DigitVal

RECURSIVE ToNat(_)
ToNat(str) ==
    IF str = "" THEN 0
    ELSE 10 * ToNat(SubSeq(str, 1, Len(str) - 1))
         + DigitVal[SubSeq(str, Len(str), Len(str))]

\* str.replace(old, new)
RECURSIVE Replace(_, _, _)
Replace(str, old, new) ==
    LET i == Find(str, old, 1) IN
    IF i = 0 THEN str
    ELSE SubSeq(str, 1, i - 1) \o new
         \o Replace(SubSeq(str, i + Len(old), Len(str)), old, new)

\* days of the proleptic Gregorian calendar up to a date
DaysFromCivil(y, m, d) ==
    LET yy == IF m <= 2 THEN y - 1 ELSE y
        mm == IF m > 2 THEN m - 3 ELSE m + 9
    IN 365 * yy + (yy \div 4) - (yy \div 100) + (yy \div 400)
       + ((153 * mm + 2) \div 5) + d - 1

\* the "YYYY-MM-DD" at the start of str, or ValueError
IsoDate(str) ==
    IF /\ Len(str) >= 10
       /\ IsDigits(SubSeq(str, 1, 4)) /\ SubSeq(str, 5, 5) = "-"
       /\ IsDigits(SubSeq(str, 6, 7)) /\ SubSeq(str, 8, 8) = "-"
       /\ IsDigits(SubSeq(str, 9, 10))
       /\ ToNat(SubSeq(str, 1, 4)) >= 1
       /\ ToNat(SubSeq(str, 6, 7)) \in 1..12
       /\ ToNat(SubSeq(str, 9, 10)) \in 1..31
    THEN [days |-> DaysFromCivil(ToNat(SubSeq(str, 1, 4)),
                                 ToNat(SubSeq(str, 6, 7)),
                                 ToNat(SubSeq(str, 9, 10)))]
    ELSE Raise("ValueError")

\* the "HH:MM" at position i of str, in minutes, or -1
HoursMinutes(str, i) ==
    IF /\ Len(str) >= i + 4
       /\ IsDigits(SubSeq(str, i, i + 1)) /\ SubSeq(str, i + 2, i + 2) = ":"
       /\ IsDigits(SubSeq(str, i + 3, i + 4))
       /\ ToNat(SubSeq(str, i, i + 1)) \in 0..23
       /\ ToNat(SubSeq(str, i + 3, i + 4)) \in 0..59
    THEN 60 * ToNat(SubSeq(str, i, i + 1)) + ToNat(SubSeq(str, i + 3, i + 4))
    ELSE -1

\* the time of day "HH:MM:SS[.fff]" at the start of str: its milliseconds
\* and its length, or ValueError
IsoTime(str) ==
    IF /\ HoursMinutes(str, 1) >= 0
       /\ Len(str) >= 8 /\ SubSeq(str, 6, 6) = ":"
       /\ IsDigits(SubSeq(str, 7, 8)) /\ ToNat(SubSeq(str, 7, 8)) \in 0..59
    THEN LET whole == 1000 * (60 * HoursMinutes(str, 1) + ToNat(SubSeq(str, 7, 8)))
         IN IF Len(str) >= 12 /\ SubSeq(str, 9, 9) = "."
                /\ IsDigits(SubSeq(str, 10, 12))
            THEN [ms |-> whole + ToNat(SubSeq(str, 10, 12)), len |-> 12]
            ELSE [ms |-> whole, len |-> 8]
    ELSE Raise("ValueError")

\* the UTC offset that ends the string, in minutes; aware tells whether
\* there is one
IsoOffset(str) ==
    IF str = "" THEN [aware |-> FALSE, minutes |-> 0]
    ELSE IF Len(str) = 6 /\ SubSeq(str, 1, 1) \in {"+", "-"}
            /\ HoursMinutes(str, 2) >= 0
    THEN [aware |-> TRUE,
          minutes |-> IF SubSeq(str, 1, 1) = "+" THEN HoursMinutes(str, 2)
                      ELSE 0 - HoursMinutes(str, 2)]
    ELSE Raise("ValueError")

\* datetime.fromisoformat(str): [aware, days, ms], the ms being those of
\* the instant in UTC when the datetime is aware
fromisoformat(str) ==
    LET date == IsoDate(str) IN
    IF IsRaise(date) THEN date
    ELSE IF Len(str) = 10 THEN [aware |-> FALSE, days |-> date.days, ms |-> 0]
    ELSE IF SubSeq(str, 11, 11) \notin {"T", " "} THEN Raise("ValueError")
    ELSE
    LET time == IsoTime(SubSeq(str, 12, Len(str))) IN
    IF IsRaise(time) THEN time ELSE
    LET offset == IsoOffset(SubSeq(str, 12 + time.len, Len(str))) IN
    IF IsRaise(offset) THEN offset ELSE
    [aware |-> offset.aware, days |-> date.days,
     ms |-> time.ms - 60000 * offset.minutes]

\* a float number of seconds, kept as its whole number of milliseconds
JSeconds(ms) == [t |-> "seconds", v |-> ms]

\* max(0, (t1 - t0).total_seconds()): None when fromisoformat raised the
\* ValueError that is caught; subtracting a naive and an aware datetime
\* raises a TypeError that is not caught
Elapsed(t0, t1) ==
    IF IsRaise(t0) \/ IsRaise(t1) THEN None
    ELSE IF t0.aware # t1.aware THEN Raise("TypeError")
    ELSE IF (t1.days - t0.days) * 86400000 + (t1.ms - t0.ms) > 0
    THEN JSeconds((t1.days - t0.days) * 86400000 + (t1.ms - t0.ms))
    ELSE JSeconds(0)

\* the try block of parse_session: .replace raises the AttributeError that
\* is caught when a timestamp is not a string
WallTime(first, last) ==
    IF ~IsStr(first) \/ ~IsStr(last) THEN None
    ELSE Elapsed(fromisoformat(Replace(first.v, "Z", "+00:00")),
                 fromisoformat(Replace(last.v, "Z", "+00:00")))

---------------------------------------------------------------------------
(* sorted(): strings compare by code point, numbers by value, and a
   comparison between other values raises TypeError *)

\* the printable ASCII characters in code-point order (without the double
\* quote, the backslash and the backquote)
CharOrder ==
    " !#$%&'()*+,-./0123456789:;<=>?@" \o UpperLetters \o "[]^_"
    \o LowerLetters \o "{|}~"

CharRank(c) == Find(CharOrder, c, 1)

RECURSIVE StrLess(_, _)
StrLess(a, b) ==
    IF b = "" THEN FALSE
    ELSE IF a = "" THEN TRUE
    ELSE IF SubSeq(a, 1, 1) = SubSeq(b, 1, 1)
    THEN StrLess(SubSeq(a, 2, Len(a)), SubSeq(b, 2, Len(b)))
    ELSE CharRank(SubSeq(a, 1, 1)) < CharRank(SubSeq(b, 1, 1))

Comparable(x, y) == (IsStr(x) /\ IsStr(y)) \/ (IsNumber(x) /\ IsNumber(y))

ValueLess(x, y) ==
    IF IsStr(x) THEN StrLess(x.v, y.v) ELSE NumberOf(x) < NumberOf(y)

RECURSIVE SortedSeq(_)
SortedSeq(S) ==
    IF S = {} THEN <<>>
    ELSE LET least == CHOOSE x \in S : \A y \in S : ~ValueLess(y, x)
         IN <<least>> \o SortedSeq(S \ {least})

\* sorted(S) of a set of JSON values
Sorted(S) ==
    IF \E x, y \in S : x # y /\ ~Comparable(x, y) THEN Raise("TypeError")
    ELSE JList(SortedSeq(S))

---------------------------------------------------------------------------
(* utils/jsonl_parser.py: parse_session.  A line of the file is given by
   what line.strip() and json.loads make of it: blank, not JSON, or the JSON
   value it decodes to. *)

Blank == [kind |-> "blank"]
Malformed == [kind |-> "malformed"]
Json(v) == [kind |-> "json", value |-> v]

\* the body of the `for line in f` loop
ProcessLine(line, msgs, md) ==
    IF line.kind = "blank" THEN [messages |-> msgs, metadata |-> md]
    ELSE IF line.kind = "malformed"                  \* JSONDecodeError
    THEN [messages |-> msgs, metadata |-> md]
    ELSE IF ~IsDict(line.value) THEN Raise("AttributeError")   \* entry.get
    ELSE
    LET entry == line.value.v
        entry_type == Get(entry, "type", None)
        ts0 == Get(entry, "timestamp", None)
        snap == Get(entry, "snapshot", None)
        ts == IF ~Truthy(ts0) /\ entry_type = JStr("file-history-snapshot")
                 /\ IsDict(snap)
              THEN Get(snap.v, "timestamp", None)
              ELSE ts0
        md1 == IF Truthy(ts)
               THEN [md EXCEPT !.first_timestamp = IF @ = None THEN ts ELSE @,
                               !.last_timestamp = ts]
               ELSE md
    IN
    IF Truthy(entry_type) /\ ~Hashable(entry_type) THEN Raise("TypeError") ELSE
    LET md2 == IF Truthy(entry_type)
               THEN [md1 EXCEPT !.entry_counts = Incr(@, entry_type)]
               ELSE md1
        md3 == IF Truthy(Get(entry, "isSidechain", None))
               THEN [md2 EXCEPT !.sidechain_messages = @ + 1]
               ELSE md2
    IN
    IF entry_type = JStr("user") THEN _process_user(entry, msgs, md3)
    ELSE IF entry_type = JStr("assistant") THEN _process_assistant(entry, msgs, md3)
    ELSE IF entry_type = JStr("system") THEN _process_system(entry, msgs, md3)
    ELSE IF entry_type = JStr("progress") THEN _process_progress(entry, msgs, md3)
    ELSE [messages |-> msgs, metadata |-> md3]

\* the statements of parse_session after the loop: the five sets become
\* sorted lists, the wall time is computed and the title inferred
SetFields ==
    {"models_used", "service_tiers", "files_read", "files_written",
     "files_created"}

SortSets(md) ==
    [md EXCEPT !.models_used = Sorted(@),
               !.service_tiers = Sorted(@),
               !.files_read = Sorted(@),
               !.files_written = Sorted(@),
               !.files_created = Sorted(@)]

WallTimeOf(md) ==
    IF Truthy(md.first_timestamp) /\ Truthy(md.last_timestamp)
    THEN WallTime(md.first_timestamp, md.last_timestamp)
    ELSE None

Titled(msgs, md, wall) ==
    IF IsRaise(wall) THEN wall
    ELSE [title |-> _infer_title(msgs),
          metadata |-> [md EXCEPT !.session_wall_time_seconds = wall]]

Sorting(msgs, md) ==
    IF \E k \in SetFields : IsRaise(md[k]) THEN Raise("TypeError")
    ELSE Titled(msgs, md, WallTimeOf(md))

Finalize(msgs, md) == Sorting(msgs, SortSets(md))

---------------------------------------------------------------------------
(* utils/jsonl_parser.py: quick_session_info.  The lines of the model are
   the lines of the file after strip(); the size of the file, which counts
   the stripped whitespace too, is a separate input.  Sizes above
   ChunkSize, for which the tail starts inside the file, are not modelled. *)

QuickLineLimit == 80
TailThreshold == 10000
ChunkSize == 32768

QuickStart == [title |-> None, first_ts |-> None, last_ts |-> None]

\* the title a user entry gives in the first pass, None if it gives none
QuickTitleOfText(text) ==
    IF IsRaise(text) THEN text
    ELSE IF ~Truthy(text) THEN None
    ELSE IF TitleOfText(text.v) = "" THEN None
    ELSE JStr(TitleOfText(text.v))

QuickTitle(msg) ==
    IF ~IsDict(msg) THEN Raise("AttributeError")
    ELSE QuickTitleOfText(_extract_text(Get(msg.v, "content", JList(<<>>))))

QuickWithTitle(acc, title) ==
    IF IsRaise(title) THEN title ELSE [acc EXCEPT !.title = title]

QuickWithTs(acc, ts) ==
    IF Truthy(ts)
    THEN [acc EXCEPT !.first_ts = IF @ = None THEN ts ELSE @, !.last_ts = ts]
    ELSE acc

\* the body of the loop of the first pass, for one line
QuickLine(ln, acc) ==
    IF ln.kind = "blank" THEN acc
    ELSE IF ln.kind = "malformed" THEN acc           \* JSONDecodeError
    ELSE IF ~IsDict(ln.value) THEN Raise("AttributeError")  \* entry.get
    ELSE IF acc.title = None /\ Get(ln.value.v, "type", None) = JStr("user")
    THEN QuickWithTitle(QuickWithTs(acc, Get(ln.value.v, "timestamp", None)),
                        QuickTitle(Get(ln.value.v, "message", JObj(EmptyDict))))
    ELSE QuickWithTs(acc, Get(ln.value.v, "timestamp", None))

\* pass 1: the first QuickLineLimit lines
RECURSIVE QuickPass1(_, _, _)
QuickPass1(lines, lines_read, acc) ==
    IF IsRaise(acc) THEN acc
    ELSE IF lines = <<>> \/ lines_read + 1 > QuickLineLimit THEN acc
    ELSE QuickPass1(Tail(lines), lines_read + 1, QuickLine(Head(lines), acc))

\* pass 2: the lines of the tail in reverse, up to the first timestamp
RECURSIVE QuickPass2(_, _)
QuickPass2(lines, acc) ==
    IF lines = <<>> THEN acc
    ELSE IF lines[Len(lines)].kind \in {"blank", "malformed"}
    THEN QuickPass2(SubSeq(lines, 1, Len(lines) - 1), acc)
    ELSE IF ~IsDict(lines[Len(lines)].value) THEN Raise("AttributeError")
    ELSE IF Truthy(Get(lines[Len(lines)].value.v, "timestamp", None))
    THEN [acc EXCEPT !.last_ts = lines[Len(lines)].value.v["timestamp"]]
    ELSE QuickPass2(SubSeq(lines, 1, Len(lines) - 1), acc)

QuickResult(acc) ==
    IF IsRaise(acc) THEN acc
    ELSE [title |-> IF Truthy(acc.title) THEN acc.title
                    ELSE JStr(UntitledSession),
          first_timestamp |-> acc.first_ts,
          last_timestamp |-> acc.last_ts]

QuickTail(lines, size, acc) ==
    IF IsRaise(acc) THEN acc
    ELSE IF size > TailThreshold THEN QuickResult(QuickPass2(lines, acc))
    ELSE QuickResult(acc)

quick_session_info(lines, size) ==
    QuickTail(lines, size, QuickPass1(lines, 0, QuickStart))

---------------------------------------------------------------------------
(* utils/session_stats.py: the statistics engine.  A Python dict that keeps
   insertion order is a sequence of [key, value] pairs. *)

Range(seq) == {seq[i] : i \in DOMAIN seq}

\* the dict _compute_files_touched returns, or the TypeError of a sorted()
FilesTouched(sorted_read, sorted_written, sorted_created, total_unique) ==
    IF IsRaise(sorted_read) THEN sorted_read
    ELSE IF IsRaise(sorted_written) THEN sorted_written
    ELSE IF IsRaise(sorted_created) THEN sorted_created
    ELSE [read |-> sorted_read,
          written |-> sorted_written,
          created |-> sorted_created,
          total_unique |-> total_unique]

\* a deduction that takes only the written files out of the read ones
FilesTouchedKeepingCreated(meta) ==
    LET read == Range(meta.files_read.v)
        written == Range(meta.files_written.v)
        created == Range(meta.files_created.v)
    IN FilesTouched(Sorted(read \ written), Sorted(written), Sorted(created),
                    Cardinality(read \cup written \cup created))

_compute_files_touched(meta) ==
    LET read == Range(meta.files_read.v)
        written == Range(meta.files_written.v)
        created == Range(meta.files_created.v)
    IN FilesTouched(Sorted((read \ written) \ created), Sorted(written),
                    Sorted(created),
                    Cardinality(read \cup written \cup created))

\* pending[key] = value: a key that is already there keeps its place
DictSet(pending, key, value) ==
    IF \E i \in DOMAIN pending : pending[i].key = key
    THEN [i \in DOMAIN pending |->
             IF pending[i].key = key THEN [key |-> key, value |-> value]
             ELSE pending[i]]
    ELSE Append(pending, [key |-> key, value |-> value])

\* the `for tu in msg["tool_uses"]` loop: st is [commands, pending]
RECURSIVE PendingLoop(_, _, _)
PendingLoop(tool_uses, timestamp, st) ==
    IF tool_uses = <<>> \/ IsRaise(st) THEN st
    ELSE
    LET tu == Head(tool_uses) IN
    IF tu.name # JStr("Bash") THEN PendingLoop(Tail(tool_uses), timestamp, st)
    ELSE IF ~IsDict(tu.input) THEN Raise("AttributeError")    \* tu["input"].get
    ELSE
    LET cmd == Get(tu.input.v, "command", JStr("")) IN
    IF ~Truthy(cmd) THEN PendingLoop(Tail(tool_uses), timestamp, st)
    ELSE IF ~Hashable(tu.id) THEN Raise("TypeError")
    ELSE PendingLoop(Tail(tool_uses), timestamp,
             [st EXCEPT !.pending =
                 DictSet(@, tu.id, [command |-> cmd, timestamp |-> timestamp])])

\* the part of the loop body that matches a bash result to the first
\* pending command
MatchResult(trp_, st) ==
    IF Get(trp_, "result_type", None) = JStr("bash") /\ st.pending # <<>>
    THEN LET entry == Head(st.pending).value IN
         [commands |-> Append(st.commands,
              entry @@
              [exit_code |-> Get(trp_, "exit_code", None),
               is_error |-> Get(trp_, "is_error", JBool(FALSE)),
               interrupted |-> Get(trp_, "interrupted", JBool(FALSE)),
               return_code_interpretation |->
                   Get(trp_, "return_code_interpretation", None)]),
          pending |-> Tail(st.pending)]
    ELSE st

RECURSIVE CommandsLoop(_, _)
CommandsLoop(msgs, st) ==
    IF msgs = <<>> \/ IsRaise(st) THEN st
    ELSE
    LET msg == Head(msgs)
        st1 == IF msg.role = "assistant" /\ Truthy(msg.tool_uses)
               THEN PendingLoop(msg.tool_uses.v, msg.timestamp, st)
               ELSE st
    IN
    IF IsRaise(st1) THEN st1
    ELSE IF msg.role = "user" /\ msg.tool_result_parsed # None
    THEN CommandsLoop(Tail(msgs), MatchResult(msg.tool_result_parsed, st1))
    ELSE CommandsLoop(Tail(msgs), st1)

\* an unmatched command: no result captured
Unmatched(p) == p.value @@ [exit_code |-> None, is_error |-> None]

_compute_commands_run(msgs) ==
    LET st == CommandsLoop(msgs, [commands |-> <<>>, pending |-> <<>>]) IN
    IF IsRaise(st) THEN st
    ELSE JList(st.commands \o MapSeq(st.pending, Unmatched))

RECURSIVE TurnsLoop(_, _, _)
TurnsLoop(msgs, turns, prev_role) ==
    IF msgs = <<>> THEN turns
    ELSE LET role == Head(msgs).role IN
         TurnsLoop(Tail(msgs),
                   IF role = "assistant" /\ prev_role = "user"
                   THEN turns + 1 ELSE turns,
                   IF role \in {"user", "assistant"} THEN role ELSE prev_role)

\* a count of the assistant messages that directly follow a user message,
\* with system and progress messages breaking the pair
CountAdjacentTurns(msgs) ==
    Cardinality({i \in 2..Len(msgs) :
                   msgs[i].role = "assistant" /\ msgs[i - 1].role = "user"})

_count_turns(msgs) == TurnsLoop(msgs, 0, "")

(* Money is counted in quarters of a millionth of a dollar, the unit in
   which every price per token is a whole number: _MODEL_PRICING gives, per
   million tokens, 15.0 / 75.0 for opus, 3.0 / 15.0 for sonnet and
   0.25 / 1.25 for haiku. *)
_MODEL_PRICING ==
    <<[key |-> "opus", input |-> 60, output |-> 300],
      [key |-> "sonnet", input |-> 12, output |-> 60],
      [key |-> "haiku", input |-> 1, output |-> 5]>>

\* a float number of dollars, kept as its number of quarter-millionths
JUsd(units) == [t |-> "usd", v |-> units]

\* the first entry of _MODEL_PRICING whose key is in the lowered model
\* name, None if there is none; model.lower() raises for a non-string
_get_pricing(model) ==
    IF ~IsStr(model) THEN Raise("AttributeError")
    ELSE LET model_lower == Lower(model.v)
             hits == SelectSeq(_MODEL_PRICING,
                               LAMBDA pr : Contains(model_lower, pr.key))
         IN IF hits = <<>> THEN None ELSE Head(hits)

\* round(total, 4): to the nearest ten-thousandth of a dollar, 400 units,
\* a tie going to the even one
Round4(units) ==
    LET q == units \div 400
        r == units % 400
    IN IF r < 200 THEN 400 * q
       ELSE IF r > 200 THEN 400 * (q + 1)
       ELSE IF q % 2 = 0 THEN 400 * q ELSE 400 * (q + 1)

\* the loop of _estimate_cost: st is [total, has_data]
RECURSIVE CostLoop(_, _)
CostLoop(msgs, st) ==
    IF msgs = <<>> \/ IsRaise(st) THEN st
    ELSE
    LET msg == Head(msgs) IN
    IF msg.role # "assistant" THEN CostLoop(Tail(msgs), st)
    ELSE
    LET inp == msg.usage.input_tokens
        out == msg.usage.output_tokens
    IN
    IF ~(Truthy(inp) \/ Truthy(out)) THEN CostLoop(Tail(msgs), st)
    ELSE
    LET pricing == _get_pricing(msg.model) IN
    IF IsRaise(pricing) THEN pricing
    ELSE IF pricing = None THEN CostLoop(Tail(msgs), st)
    ELSE CostLoop(Tail(msgs),
                  [total |-> st.total + NumberOf(inp) * pricing.input
                                      + NumberOf(out) * pricing.output,
                   has_data |-> TRUE])

_estimate_cost(msgs, meta) ==
    LET st == CostLoop(msgs, [total |-> 0, has_data |-> FALSE]) IN
    IF IsRaise(st) THEN st
    ELSE IF st.has_data THEN JUsd(Round4(st.total))
    ELSE None

\* the counter of _summarize_tool_results that one message adds to, "" if
\* it adds to none
SummaryKey(msg) ==
    IF msg.role # "user" \/ msg.tool_result_parsed = None THEN ""
    ELSE
    LET trp_ == msg.tool_result_parsed
        rt == Get(trp_, "result_type", JStr(""))
    IN
    IF rt = JStr("bash") THEN
        IF Truthy(Get(trp_, "interrupted", None)) THEN "bash_interrupted"
        ELSE IF Truthy(Get(trp_, "is_error", None)) THEN "bash_error"
        ELSE "bash_success"
    ELSE IF rt = JStr("file_read") THEN "file_reads"
    ELSE IF rt = JStr("file_edit") THEN "file_edits"
    ELSE IF rt = JStr("file_write") THEN "file_writes"
    ELSE IF rt = JStr("glob") THEN "glob_searches"
    ELSE IF rt = JStr("grep") THEN "grep_searches"
    ELSE IF rt = JStr("web_fetch") THEN "web_fetches"
    ELSE IF rt = JStr("web_search") THEN "web_searches"
    ELSE IF rt = JStr("task") THEN "tasks"
    ELSE ""

SummaryKeys ==
    {"bash_success", "bash_error", "bash_interrupted", "file_reads",
     "file_edits", "file_writes", "glob_searches", "grep_searches",
     "web_fetches", "web_searches", "tasks"}

_summarize_tool_results(msgs) ==
    [k \in SummaryKeys |->
        Cardinality({i \in DOMAIN msgs : SummaryKey(msgs[i]) = k})]

\* seconds is None or the wall time; int(seconds) drops the milliseconds
_format_duration(seconds) ==
    IF seconds = None THEN None
    ELSE
    LET whole == seconds.v \div 1000
        minutes == whole \div 60
        secs == whole % 60
        hours == minutes \div 60
        mins == minutes % 60
    IN
    IF whole < 60 THEN JStr(ToString(whole) \o "s")
    ELSE IF minutes < 60
    THEN JStr(ToString(minutes) \o "m " \o ToString(secs) \o "s")
    ELSE JStr(ToString(hours) \o "h " \o ToString(mins) \o "m")

\* the stats dict, or the first exception raised while it is built
StatsDict(meta, msgs, files_touched, commands_run, cost_estimate_usd) ==
    IF IsRaise(files_touched) THEN files_touched
    ELSE IF IsRaise(commands_run) THEN commands_run
    ELSE IF IsRaise(cost_estimate_usd) THEN cost_estimate_usd
    ELSE
    [files_touched |-> files_touched,
     commands_run |-> commands_run,
     urls_accessed |-> meta.web_fetches,
     conversation_turns |-> _count_turns(msgs),
     wall_clock_seconds |-> meta.session_wall_time_seconds,
     wall_clock_display |-> _format_duration(meta.session_wall_time_seconds),
     cost_estimate_usd |-> cost_estimate_usd,
     tool_result_summary |-> _summarize_tool_results(msgs),
     stop_reason_summary |-> meta.stop_reasons,
     entry_type_counts |-> meta.entry_counts,
     sidechain_message_count |-> meta.sidechain_messages,
     api_error_count |-> meta.api_errors,
     compaction_events |-> meta.compact_boundaries]

compute_stats(sess) ==
    StatsDict(sess.metadata, sess.messages,
              _compute_files_touched(sess.metadata),
              _compute_commands_run(sess.messages),
              _estimate_cost(sess.messages, sess.metadata))

---------------------------------------------------------------------------
(* A run of the parser and the statistics engine over one session file:
   parse_session reads the file line by line, finishes the session, and
   compute_stats is called on the result, as the CLI and the API do. *)

ParseInit ==
    /\ RunsIdle
    /\ ExportIdle
    /\ QuickIdle
    /\ TokenIdle
    /\ ClassifyIdle
    /\ RulesIdle
    /\ pc = "reading"
    /\ file = <<>>
    /\ session = [title |-> None, messages |-> <<>>, metadata |-> InitMetadata]
    /\ stats = None
    /\ error = ""

\* one turn of the `for line in f` loop, on one of the given lines of a
\* file of at most MaxLines lines: an exception leaves parse_session, and
\* the session is lost with it
ReadLine(Lines, MaxLines) ==
    /\ pc = "reading"
    /\ Len(file) < MaxLines
    /\ \E line \in Lines :
       \E r \in {ProcessLine(line, session.messages, session.metadata)} :
          /\ file' = Append(file, line)
          /\ IF IsRaise(r)
             THEN /\ pc' = "parse_raised"
                  /\ error' = r.exc
                  /\ UNCHANGED session
             ELSE /\ session' = [session EXCEPT !.messages = r.messages,
                                                !.metadata = r.metadata]
                  /\ UNCHANGED <<pc, error>>
    /\ UNCHANGED <<stats, classifyVars, ruleVars, tokenVars,
                 quickVars, exportVars, runVars>>

\* the end of the file: parse_session finishes and returns the session
EndOfFile ==
    /\ pc = "reading"
    /\ \E r \in {Finalize(session.messages, session.metadata)} :
       IF IsRaise(r)
       THEN /\ pc' = "parse_raised"
            /\ error' = r.exc
            /\ UNCHANGED session
       ELSE /\ pc' = "parsed"
            /\ session' = [session EXCEPT !.title = JStr(r.title),
                                          !.metadata = r.metadata]
            /\ UNCHANGED error
    /\ UNCHANGED <<file, stats, classifyVars, ruleVars, tokenVars,
                 quickVars, exportVars, runVars>>

ComputeStats ==
    /\ pc = "parsed"
    /\ \E r \in {compute_stats(session)} :
       IF IsRaise(r)
       THEN /\ pc' = "stats_raised"
            /\ error' = r.exc
            /\ UNCHANGED stats
       ELSE /\ pc' = "stats"
            /\ stats' = r
            /\ UNCHANGED error
    /\ UNCHANGED <<file, session, classifyVars, ruleVars, tokenVars,
                 quickVars, exportVars, runVars>>

\* the session of a whole file, as the loop of parse_session builds it:
\* [messages, metadata], or the exception that ends the loop
RECURSIVE ParseLines(_, _)
ParseLines(lines, acc) ==
    IF lines = <<>> \/ IsRaise(acc) THEN acc
    ELSE ParseLines(Tail(lines),
                    ProcessLine(Head(lines), acc.messages, acc.metadata))

ParseFile(lines) ==
    ParseLines(lines, [messages |-> <<>>, metadata |-> InitMetadata])

---------------------------------------------------------------------------
(* Session files of records with missing and null fields, and of lines that
   are not records at all *)

User(fields) == Json(JObj([type |-> JStr("user")] @@ fields))
Assistant(fields) == Json(JObj([type |-> JStr("assistant")] @@ fields))
System(fields) == Json(JObj([type |-> JStr("system")] @@ fields))
Progress(fields) == Json(JObj([type |-> JStr("progress")] @@ fields))

\* lines that are no JSON object: empty, not JSON, or JSON of another type
NonRecordLines ==
    {Blank, Malformed, Json(None), Json(JInt(5)), Json(JStr("text")),
     Json(JList(<<>>)), Json(JBool(TRUE))}

\* records of the four processed types with every field present
FullRecords ==
    {User([uuid |-> JStr("u1"), timestamp |-> JStr("2026-01-01T10:00:00Z"),
           cwd |-> JStr("/w"),
           message |-> JObj([content |-> JStr("<env>x</env>fix the bug")]),
           toolUseResult |-> JObj([stdout |-> JStr("ok")])]),
     Assistant([uuid |-> JStr("a1"), timestamp |-> JStr("2026-01-01T10:00:30Z"),
                message |-> JObj([model |-> JStr("claude-sonnet-4"),
                                  usage |-> JObj([input_tokens |-> JInt(3)]),
                                  content |-> JList(<<JObj([type |-> JStr("text"),
                                                           text |-> JStr("done")])>>)])]),
     System([subtype |-> JStr("compact_boundary"),
             compactMetadata |-> JObj([trigger |-> JStr("auto")])]),
     Progress([data |-> JObj([type |-> JStr("hook")])])}

\* the same records with a field missing or null
SparseRecords ==
    {User(<<>>),
     User([message |-> None]),
     User([message |-> JObj([content |-> None])]),
     User([message |-> JObj(EmptyDict), toolUseResult |-> None]),
     Assistant(<<>>),
     Assistant([message |-> None]),
     Assistant([message |-> JObj([usage |-> None])]),
     Assistant([message |-> JObj([content |-> None, model |-> None,
                                  stop_reason |-> None])]),
     Assistant([message |-> JObj([content |->
                   JList(<<JObj([type |-> JStr("text"), text |-> None])>>)])]),
     System(<<>>),
     System([subtype |-> None, content |-> None, compactMetadata |-> None]),
     Progress(<<>>),
     Progress([data |-> None])}

ShapeLines == NonRecordLines \cup FullRecords \cup SparseRecords

MaxShapeLines == 2

ReadShapeLine == ReadLine(ShapeLines, MaxShapeLines)

ShapeNext == ReadShapeLine \/ EndOfFile \/ ComputeStats

SpecShape == ParseInit /\ [][ShapeNext]_vars

LastLine == file[Len(file)]

IsRecordLine(line) == line.kind = "json" /\ IsDict(line.value)

\* the records of the four processed types among the lines read
ProcessedRecords ==
    {i \in DOMAIN file : file[i] \in FullRecords \cup SparseRecords}

\* C7: no event processor raises on a record in which fields are missing
\* or null, the containers message, usage, content, data and toolUseResult
\* included: the record has its message appended all the same.
C7_ProcessorsNeverRaise ==
    /\ pc = "parse_raised" => LastLine \notin FullRecords \cup SparseRecords
    /\ pc = "reading" => Len(session.messages) = Cardinality(ProcessedRecords)

\* C8: parse_session completes without error on every line that is empty
\* or is not a well-formed JSON object, and gives the session of the file
\* with those lines removed.
C8_NonRecordLinesSkipped ==
    /\ pc = "parse_raised" => LastLine \notin NonRecordLines
    /\ pc = "reading" =>
           [messages |-> session.messages, metadata |-> session.metadata]
               = ParseFile(SelectSeq(file, IsRecordLine))

\* What the code does keep of C8: the empty lines and the lines that are
\* not JSON are skipped, the session is the one of the file without them.
C8_BlankAndMalformedSkipped ==
    /\ pc = "parse_raised" => LastLine \notin {Blank, Malformed}
    /\ pc = "reading" =>
           [messages |-> session.messages, metadata |-> session.metadata]
               = ParseFile(SelectSeq(file, LAMBDA line : line.kind = "json"))

---------------------------------------------------------------------------
(* Session files of assistant records that differ in their model name and
   in their usage block *)

\* a field of a record under construction: Absent leaves the key out
Absent == [t |-> "absent"]
Field(k, v) == IF v = Absent THEN <<>> ELSE k :> v

\* model names of the three priced tiers in either case, an unpriced one,
\* and null
ModelNames ==
    {JStr("claude-sonnet-4"), JStr("Claude-OPUS-4"), JStr("claude-3-haiku"),
     JStr("gpt-4"), None}

\* usage blocks whose token fields are each absent, null or an integer
IntegerUsages ==
    {Absent,
     JObj([input_tokens |-> None, output_tokens |-> None,
           cache_read_input_tokens |-> None,
           cache_creation_input_tokens |-> None,
           cache_creation |-> JObj([ephemeral_5m_input_tokens |-> None,
                                    ephemeral_1h_input_tokens |-> None])]),
     JObj([input_tokens |-> JInt(1000000), output_tokens |-> JInt(1000000)]),
     JObj([input_tokens |-> JInt(1)]),
     JObj([input_tokens |-> JInt(3), output_tokens |-> JInt(2),
           cache_read_input_tokens |-> JInt(7),
           cache_creation_input_tokens |-> JInt(5),
           cache_creation |-> JObj([ephemeral_5m_input_tokens |-> JInt(4),
                                    ephemeral_1h_input_tokens |-> None])]),
     JObj([output_tokens |-> JInt(0), cache_creation |-> None])}

\* usage blocks outside of that: a token count that is a string, and a
\* usage that is null itself
OtherUsages == {JObj([input_tokens |-> JStr("12")]), None}

UsageRecord(model, usage) ==
    Assistant([message |-> JObj(Field("model", model) @@ Field("usage", usage))])

UsageLines ==
    {UsageRecord(m, u) : m \in ModelNames, u \in IntegerUsages \cup OtherUsages}
    \cup {UsageRecord(Absent, JObj([output_tokens |-> JInt(2)])),
          UsageRecord(JStr("<synthetic>"), JObj([input_tokens |-> JInt(3)]))}

MaxUsageLines == 2

ReadUsageLine == ReadLine(UsageLines, MaxUsageLines)

UsageNext == ReadUsageLine \/ EndOfFile \/ ComputeStats

SpecUsage == ParseInit /\ [][UsageNext]_vars

\* the usage block of a record, the empty dict when it is absent
UsageOf(line) == Get(line.value.v["message"].v, "usage", JObj(EmptyDict))

\* absent, null or an integer
IsIntegerField(d, k) == k \notin DOMAIN d \/ d[k] = None \/ d[k].t = "int"

\* the integer a field stands for: 0 when it is absent or null
FieldValue(d, k) == IF k \in DOMAIN d /\ d[k].t = "int" THEN d[k].v ELSE 0

\* the block the two ephemeral fields are in, the empty dict when there is
\* no such block
CacheCreationOf(usage) ==
    IF "cache_creation" \in DOMAIN usage /\ IsDict(usage["cache_creation"])
    THEN usage["cache_creation"].v
    ELSE EmptyDict

\* the usage of the record is an object (or absent) whose six token fields
\* are each absent, null or an integer
IntegerUsage(line) ==
    /\ IsDict(UsageOf(line))
    /\ \A f \in Range(TokenFields) : IsIntegerField(UsageOf(line).v, f[2])
    /\ \A f \in Range(EphemeralFields) :
           IsIntegerField(CacheCreationOf(UsageOf(line).v), f[2])

\* the sum of one token field over the lines of a file
RECURSIVE FieldSum(_, _, _)
FieldSum(lines, k, ephemeral) ==
    IF lines = <<>> THEN 0
    ELSE FieldValue(IF ephemeral THEN CacheCreationOf(UsageOf(Head(lines)).v)
                    ELSE UsageOf(Head(lines)).v, k)
         + FieldSum(Tail(lines), k, ephemeral)

\* C6: on assistant records whose usage fields (the four token counts and
\* the two ephemeral cache_creation fields) are each absent, null or an
\* integer, the usage block itself being an object or absent,
\* _process_assistant does not raise, each total is the sum of the
\* field's integer values (0 for absent or null), and the four numeric
\* fields of every usage snapshot hold a number, never null.
C6_NullUsageAccumulatesZero ==
    (\A i \in DOMAIN file : IntegerUsage(file[i])) =>
        /\ pc # "parse_raised"
        /\ \A f \in Range(TokenFields) :
               session.metadata[f[1]] = FieldSum(file, f[2], FALSE)
        /\ \A f \in Range(EphemeralFields) :
               session.metadata[f[1]] = FieldSum(file, f[2], TRUE)
        /\ Len(session.messages) = Len(file)
        /\ \A i \in DOMAIN session.messages :
               /\ session.messages[i].usage.input_tokens
                      = JInt(FieldValue(UsageOf(file[i]).v, "input_tokens"))
               /\ session.messages[i].usage.output_tokens
                      = JInt(FieldValue(UsageOf(file[i]).v, "output_tokens"))
               /\ session.messages[i].usage.cache_read
                      = JInt(FieldValue(UsageOf(file[i]).v,
                                        "cache_read_input_tokens"))
               /\ session.messages[i].usage.cache_creation
                      = JInt(FieldValue(UsageOf(file[i]).v,
                                        "cache_creation_input_tokens"))

\* a record of null token counts and a record of integer ones have both
\* been processed, and the totals hold the integers
C6_Witness ==
    /\ pc = "reading"
    /\ Len(file) = 2
    /\ \A i \in DOMAIN file : IntegerUsage(file[i])
    /\ \E i \in DOMAIN file :
           /\ "input_tokens" \in DOMAIN UsageOf(file[i]).v
           /\ UsageOf(file[i]).v["input_tokens"] = None
    /\ session.metadata.total_input_tokens = 3
    /\ session.metadata.total_cache_creation_tokens = 5
    /\ session.metadata.total_ephemeral_5m_tokens = 4

---------------------------------------------------------------------------
(* The priority list of the 13 classification rules, as the specification
   numbers them; rule 13 is the catch-all *)

RuleHolds(n, tr) ==
    CASE n = 1 -> Has(tr, "stdout") \/ Has(tr, "stderr")
      [] n = 2 -> Has(tr, "structuredPatch")
                  \/ (Has(tr, "filePath") /\ Has(tr, "newString"))
      [] n = 3 -> Has(tr, "filePath") /\ Has(tr, "content")
      [] n = 4 -> Has(tr, "filenames") /\ IsList(tr["filenames"])
      [] n = 5 -> Has(tr, "mode") /\ Has(tr, "numFiles")
      [] n = 6 -> Has(tr, "file") /\ IsDict(tr["file"])
      [] n = 7 -> Has(tr, "query") /\ Has(tr, "results")
      [] n = 8 -> Has(tr, "url") /\ Has(tr, "code")
      [] n = 9 -> \/ Has(tr, "task_id") \/ Has(tr, "message")
                  \/ (Has(tr, "retrieval_status") /\ Has(tr, "task"))
                  \/ (Has(tr, "agentId") /\ Has(tr, "totalDurationMs"))
                  \/ (Has(tr, "agentId") /\ Has(tr, "isAsync"))
      [] n = 10 -> Has(tr, "newTodos") \/ Has(tr, "oldTodos")
      [] n = 11 -> Has(tr, "questions") /\ Has(tr, "answers")
      [] n = 12 -> Has(tr, "plan") /\ Has(tr, "filePath")
      [] n = 13 -> TRUE

RuleKind ==
    <<"bash", "file_edit", "file_write", "glob", "grep", "file_read",
      "web_search", "web_fetch", "task", "todo_write", "user_input", "plan",
      "unknown">>

Kinds == {RuleKind[n] : n \in DOMAIN RuleKind}

\* the lowest-numbered rule whose condition holds
FirstRule(tr) ==
    CHOOSE n \in DOMAIN RuleKind :
        RuleHolds(n, tr) /\ \A m \in 1..(n - 1) : ~RuleHolds(m, tr)

Classified == pc = "classified" /\ IsDict(tool_result)

\* C3: for every result object, _parse_tool_result returns the kind of the
\* lowest-numbered rule of the priority list whose condition holds.
C3_LowestRuleKind ==
    Classified =>
        /\ ~IsRaise(trp)
        /\ trp.result_type = JStr(RuleKind[FirstRule(tool_result.v)])

\* What the code does keep of C3: whenever the call returns, the kind is the
\* one of the lowest-numbered rule that holds.
C3_LowestRuleKindWhenReturned ==
    (Classified /\ ~IsRaise(trp)) =>
        trp.result_type = JStr(RuleKind[FirstRule(tool_result.v)])

\* C4: _parse_tool_result is total: None exactly for a non-object, and for
\* every object a record, without raising, whose result_type is one of the 13
\* kinds and is unknown exactly when none of the rules 1 to 12 holds.
C4_Total ==
    pc = "classified" =>
        /\ (trp = None) <=> ~IsDict(tool_result)
        /\ IsDict(tool_result) =>
              /\ ~IsRaise(trp)
              /\ trp.result_type \in {JStr(k) : k \in Kinds}
              /\ (trp.result_type = JStr("unknown"))
                    <=> (FirstRule(tool_result.v) = 13)

\* the only exception the classifier can raise: rule 7 on results without len
C4_RaisesOnlyOnResults ==
    (Classified /\ IsRaise(trp)) =>
        /\ FirstRule(tool_result.v) = 7
        /\ ~HasLen(tool_result.v["results"])

---------------------------------------------------------------------------
(* utils/exclusion_rules.py: _term_matches, _rule_matches,
   is_excluded_by_rules.  A token is an operator, [op |-> "AND"] or
   [op |-> "OR"], or a term [kind |-> "word" or "phrase", value |-> string]:
   the strings "AND" / "OR" and the (kind, value) tuples of _tokenize_rule. *)

OpAND == [op |-> "AND"]
OpOR == [op |-> "OR"]
Term(kind, value) == [kind |-> kind, value |-> value]
IsTerm(t) == "kind" \in DOMAIN t

Quote == "\""

\* re.match(r"\bAND\b", rest, re.IGNORECASE), for the word AND or OR: rest
\* starts with the word in either case and no word character follows it
StartsWithOperator(rest, word) ==
    /\ Len(rest) >= Len(word)
    /\ Lower(SubSeq(rest, 1, Len(word))) = Lower(word)
    /\ Len(rest) > Len(word)
          => SubSeq(rest, Len(word) + 1, Len(word) + 1) \notin WordChars

\* re.match(r"\S+", rest).end(): the end of the run of non-whitespace
\* characters at the start of rest
RECURSIVE NonSpaceRunEnd(_, _)
NonSpaceRunEnd(rest, i) ==
    IF i < Len(rest) /\ SubSeq(rest, i + 1, i + 1) \notin Whitespace
    THEN NonSpaceRunEnd(rest, i + 1)
    ELSE i

\* the while loop of _tokenize_rule
RECURSIVE TokenizeLoop(_, _)
TokenizeLoop(rest, toks) ==
    IF rest = "" THEN toks
    ELSE IF SubSeq(rest, 1, 1) \in Whitespace
    THEN TokenizeLoop(LStrip(rest), toks)
    ELSE IF StartsWithOperator(rest, "AND")
    THEN TokenizeLoop(LStrip(SubSeq(rest, 4, Len(rest))), Append(toks, OpAND))
    ELSE IF StartsWithOperator(rest, "OR")
    THEN TokenizeLoop(LStrip(SubSeq(rest, 3, Len(rest))), Append(toks, OpOR))
    ELSE IF SubSeq(rest, 1, 1) = Quote
    THEN IF Find(rest, Quote, 2) = 0
         THEN Append(toks, Term("word", Strip(SubSeq(rest, 2, Len(rest)))))
         ELSE TokenizeLoop(
                  LStrip(SubSeq(rest, Find(rest, Quote, 2) + 1, Len(rest))),
                  Append(toks, Term("phrase",
                                    SubSeq(rest, 2, Find(rest, Quote, 2) - 1))))
    ELSE TokenizeLoop(
             LStrip(SubSeq(rest, NonSpaceRunEnd(rest, 0) + 1, Len(rest))),
             Append(toks, Term("word",
                               SubSeq(rest, 1, NonSpaceRunEnd(rest, 0)))))

_tokenize_rule(str) == TokenizeLoop(Strip(str), <<>>)

\* a matcher that compares without folding case
TermMatchesCaseSensitive(term, text) ==
    IF term.value = "" THEN FALSE
    ELSE Contains(text, term.value)

_term_matches(term, text) ==
    IF term.value = "" THEN FALSE
    ELSE Contains(Lower(text), Lower(term.value))

\* the loop that splits the tokens into OR-separated clauses: st is
\* <<clauses, current>>
RECURSIVE SplitClauses(_, _, _)
SplitClauses(tokens, clauses, current) ==
    IF tokens = <<>> THEN
        IF current # <<>> THEN Append(clauses, current) ELSE clauses
    ELSE
        LET t == Head(tokens) IN
        IF t = OpOR THEN
            SplitClauses(Tail(tokens),
                         IF current # <<>> THEN Append(clauses, current)
                         ELSE clauses,
                         <<>>)
        ELSE IF t = OpAND THEN
            SplitClauses(Tail(tokens), clauses, current)
        ELSE
            SplitClauses(Tail(tokens), clauses, Append(current, t))

_rule_matches(tokens, text) ==
    IF tokens = <<>> THEN FALSE
    ELSE
        LET clauses == SplitClauses(tokens, <<>>, <<>>) IN
        \E c \in 1..Len(clauses) :
            LET clause == clauses[c]
                terms == SelectSeq(clause, IsTerm)
            IN /\ clause # <<>>
               /\ terms # <<>>
               /\ \A k \in 1..Len(terms) : _term_matches(terms[k], text)

is_excluded_by_rules(rs, text) ==
    IF text = "" \/ rs = <<>> THEN FALSE
    ELSE \E r \in 1..Len(rs) : _rule_matches(rs[r], text)

\* The tokens rule lines are made of here: both operators, a word that is
\* stored in upper case, a two-letter word, and the empty phrase that the
\* line `""` tokenizes to
RuleTokens ==
    {OpAND, OpOR, Term("word", "A"), Term("word", "Bc"), Term("phrase", "")}

\* The searchable texts: empty, and texts that hold the letters of the terms
\* in either case, adjacent or not
Texts == {"", "xbC", "b-c a"}

\* at most MaxRules rules of at most MaxTokens tokens in all
MaxRules == 2
MaxTokens == 5

RECURSIVE TotalLen(_)
TotalLen(rs) == IF rs = <<>> THEN 0 ELSE Len(Head(rs)) + TotalLen(Tail(rs))

RulesInit ==
    /\ RunsIdle
    /\ ExportIdle
    /\ QuickIdle
    /\ TokenIdle
    /\ ClassifyIdle
    /\ ParseIdle
    /\ pc = "load"
    /\ rules = <<>>
    /\ searchable_text = ""
    /\ excluded = FALSE

\* load_rules reads one more line: a rule of one token so far
LoadRule ==
    /\ pc = "load"
    /\ Len(rules) < MaxRules
    /\ TotalLen(rules) < MaxTokens
    /\ \E t \in RuleTokens : rules' = Append(rules, <<t>>)
    /\ UNCHANGED <<pc, searchable_text, excluded, classifyVars,
                 parseVars, tokenVars, quickVars, exportVars, runVars>>

\* the line being read holds one more token
LoadToken ==
    /\ pc = "load"
    /\ rules # <<>>
    /\ TotalLen(rules) < MaxTokens
    /\ \E t \in RuleTokens :
           rules' = [rules EXCEPT ![Len(rules)] = Append(@, t)]
    /\ UNCHANGED <<pc, searchable_text, excluded, classifyVars,
                 parseVars, tokenVars, quickVars, exportVars, runVars>>

\* the call is_excluded_by_rules(rules, text) for the text of a session
Evaluate ==
    /\ pc = "load"
    /\ \E text \in Texts :
           /\ searchable_text' = text
           /\ excluded' = is_excluded_by_rules(rules, text)
    /\ pc' = "evaluated"
    /\ UNCHANGED <<rules, classifyVars, parseVars, tokenVars,
                 quickVars, exportVars, runVars>>

RulesNext == LoadRule \/ LoadToken \/ Evaluate

SpecRules == RulesInit /\ [][RulesNext]_vars

---------------------------------------------------------------------------
(* The reading of a rule that the specification gives: the tokens between
   two ORs (or an end of the rule) form one OR-clause, whose terms are
   joined by AND *)

\* tokens[i..j] is an OR-clause of the rule: it is bounded by ORs or the
\* ends, holds no OR and holds at least one term
IsClause(tokens, i, j) ==
    /\ i <= j
    /\ (i = 1 \/ tokens[i - 1] = OpOR)
    /\ (j = Len(tokens) \/ tokens[j + 1] = OpOR)
    /\ \A k \in i..j : tokens[k] # OpOR
    /\ \E k \in i..j : IsTerm(tokens[k])

\* value is a case-insensitive substring of text
SubstringNoCase(value, text) ==
    \E i \in 1..(Len(text) + 1) :
        LET j == i + Len(value) - 1 IN
        /\ j <= Len(text)
        /\ \A k \in 1..Len(value) :
               LowerChar(SubSeq(text, i + k - 1, i + k - 1))
                   = LowerChar(SubSeq(value, k, k))

\* some rule has an OR-clause all of whose terms satisfy TermOk
SomeClauseAll(rs, TermOk(_)) ==
    \E r \in 1..Len(rs) : \E i, j \in 1..Len(rs[r]) :
        /\ IsClause(rs[r], i, j)
        /\ \A k \in i..j : IsTerm(rs[r][k]) => TermOk(rs[r][k])

\* C5 as stated: excluded iff the text is non-empty and some rule has an
\* OR-clause all of whose terms are case-insensitive substrings of the text.
C5_ExcludedIffClauseOfSubstrings ==
    pc = "evaluated" =>
        (excluded <=>
            /\ searchable_text # ""
            /\ LET Ok(t) == SubstringNoCase(t.value, searchable_text)
               IN SomeClauseAll(rules, Ok))

\* C5 as amended: excluded iff the text is non-empty and some rule has an
\* OR-clause all of whose terms are non-empty and are case-insensitive
\* substrings of the text (AND binds tighter than OR); an empty rule set or
\* an empty text excludes nothing.
C5_ExcludedIffClauseOfNonEmptySubstrings ==
    pc = "evaluated" =>
        /\ excluded <=>
              /\ searchable_text # ""
              /\ LET Ok(t) == /\ t.value # ""
                              /\ SubstringNoCase(t.value, searchable_text)
                 IN SomeClauseAll(rules, Ok)
        /\ (rules = <<>> \/ searchable_text = "") => ~excluded

\* the rule `a OR a AND bc` on a text that holds a but not bc: excluded, as
\* a OR (a AND bc), where (a OR a) AND bc would not be
C5_Witness ==
    /\ pc = "evaluated"
    /\ rules = << <<Term("word", "A"), OpOR, Term("word", "A"), OpAND,
                   Term("word", "Bc")>> >>
    /\ searchable_text = "b-c a"
    /\ excluded

---------------------------------------------------------------------------
(* The cost estimate of the statistics engine, against the messages of the
   parsed session *)

\* the priced tiers whose name is in the model name, whatever the case
TiersIn(model) ==
    IF IsStr(model)
    THEN {pr \in Range(_MODEL_PRICING) : SubstringNoCase(pr.key, model.v)}
    ELSE {}

\* the assistant messages that have a non-zero input or output token count
\* and a model name that contains a priced tier
PricedMessages ==
    {i \in DOMAIN session.messages :
        /\ session.messages[i].role = "assistant"
        /\ \/ session.messages[i].usage.input_tokens # JInt(0)
           \/ session.messages[i].usage.output_tokens # JInt(0)
        /\ TiersIn(session.messages[i].model) # {}}

\* input tokens times the input price plus output tokens times the output
\* price of the tier, summed over the priced messages among the first n
RECURSIVE ExactCost(_)
ExactCost(n) ==
    IF n = 0 THEN 0
    ELSE IF n \notin PricedMessages THEN ExactCost(n - 1)
    ELSE LET msg == session.messages[n]
             tier == CHOOSE pr \in TiersIn(msg.model) : TRUE
         IN ExactCost(n - 1) + msg.usage.input_tokens.v * tier.input
                             + msg.usage.output_tokens.v * tier.output

\* C9: _estimate_cost never raises; it returns absent exactly when no
\* assistant message has both a non-zero token count and a model name that
\* contains a priced tier, and otherwise the sum over those messages of
\* input tokens times input price plus output tokens times output price.
C9_CostIsSumOrAbsent ==
    /\ pc # "stats_raised"
    /\ pc = "stats" =>
           /\ (stats.cost_estimate_usd = None) <=> (PricedMessages = {})
           /\ PricedMessages # {} =>
                  stats.cost_estimate_usd = JUsd(ExactCost(Len(session.messages)))

\* What the code does keep of C9: it raises only on a message with tokens
\* whose model is not a string, and what it returns is absent or the sum
\* rounded to four decimals.
C9_CostIsRoundedSumUnlessModelNotString ==
    /\ pc = "stats_raised" =>
           /\ error = "AttributeError"
           /\ \E i \in DOMAIN session.messages :
                  /\ ~IsStr(session.messages[i].model)
                  /\ \/ session.messages[i].usage.input_tokens # JInt(0)
                     \/ session.messages[i].usage.output_tokens # JInt(0)
    /\ pc = "stats" =>
           /\ (stats.cost_estimate_usd = None) <=> (PricedMessages = {})
           /\ PricedMessages # {} =>
                  stats.cost_estimate_usd
                      = JUsd(Round4(ExactCost(Len(session.messages))))

\* one million input and one million output sonnet tokens cost 18.0
C9_SonnetMillion ==
    (/\ pc = "stats"
     /\ file = <<UsageRecord(JStr("claude-sonnet-4"),
                             JObj([input_tokens |-> JInt(1000000),
                                   output_tokens |-> JInt(1000000)]))>>)
        => stats.cost_estimate_usd = JUsd(18 * 4000000)

---------------------------------------------------------------------------
(* Session files of Bash invocations and tool results *)

\* a tool_use content part; an Absent id leaves the key out
ToolUse(id, name, input) ==
    JObj(Field("id", id)
         @@ [type |-> JStr("tool_use"), name |-> JStr(name), input |-> input])

\* an assistant record that makes the given tool calls
Calls(parts) == Assistant([message |-> JObj([content |-> JList(parts)])])

BashCall(id, command) ==
    Calls(<<ToolUse(id, "Bash", JObj([command |-> JStr(command)]))>>)

\* a user record that carries a Bash result
BashResult(exit_code, is_error) ==
    User([toolUseResult |-> JObj([stdout |-> JStr("out"),
                                  exitCode |-> JInt(exit_code),
                                  is_error |-> JBool(is_error)])])

\* Bash calls whose ids are distinct, repeated or missing, a call with an
\* empty command, one with a null input, two results and a result of
\* another tool
CommandLines ==
    {BashCall(id, command) : id \in {JStr("t1"), JStr("t2"), Absent},
                             command \in {"a", "b"}}
    \cup {BashCall(JStr("t3"), ""),
          Calls(<<ToolUse(JStr("t4"), "Bash", None)>>),
          Calls(<<ToolUse(JStr("t5"), "Bash", JObj([command |-> JStr("c")])),
                  ToolUse(JStr("t6"), "Bash", JObj([command |-> JStr("d")]))>>),
          BashResult(0, FALSE),
          BashResult(1, TRUE),
          User([toolUseResult |-> JObj([file |-> JObj([filePath |-> JStr("f")])])])}

MaxCommandLines == 4

ReadCommandLine == ReadLine(CommandLines, MaxCommandLines)

CommandNext == ReadCommandLine \/ EndOfFile \/ ComputeStats

SpecCommands == ParseInit /\ [][CommandNext]_vars

\* the content parts of a record, none when it has no message
ContentOf(line) ==
    IF "message" \in DOMAIN line.value.v
    THEN line.value.v["message"].v["content"].v
    ELSE <<>>

\* a Bash tool invocation that has a non-empty command
IsInvocation(part) ==
    /\ part.v["type"] = JStr("tool_use")
    /\ part.v["name"] = JStr("Bash")
    /\ IsDict(part.v["input"])
    /\ Truthy(Get(part.v["input"].v, "command", None))

\* a record that carries a bash-classified tool result
IsBashResult(line) ==
    /\ "toolUseResult" \in DOMAIN line.value.v
    /\ "stdout" \in DOMAIN line.value.v["toolUseResult"].v

\* the invocations of a file, in invocation order
RECURSIVE Invocations(_)
Invocations(lines) ==
    IF lines = <<>> THEN <<>>
    ELSE SelectSeq(ContentOf(Head(lines)), IsInvocation)
         \o Invocations(Tail(lines))

CommandOf(part) == part.v["input"].v["command"]

\* the bash results of a file that are met while an invocation is pending,
\* in file order: invoked counts the invocations so far, taken the results
\* already attached
RECURSIVE AttachedResults(_, _, _)
AttachedResults(lines, invoked, taken) ==
    IF lines = <<>> THEN <<>>
    ELSE IF IsBashResult(Head(lines)) /\ invoked > taken
    THEN <<Head(lines).value.v["toolUseResult"].v>>
         \o AttachedResults(Tail(lines), invoked, taken + 1)
    ELSE AttachedResults(Tail(lines),
                         invoked + Len(SelectSeq(ContentOf(Head(lines)),
                                                 IsInvocation)),
                         taken)

\* the tool-use ids of the invocations, an invocation without id giving None
InvocationIds(lines) ==
    MapSeq(Invocations(lines), LAMBDA part : Get(part.v, "id", None))

DistinctIds(lines) ==
    \A i, j \in DOMAIN InvocationIds(lines) :
        i # j => InvocationIds(lines)[i] # InvocationIds(lines)[j]

\* every Bash call of the file has an object as its input
ObjectInputs(lines) ==
    \A i \in DOMAIN lines : \A k \in DOMAIN ContentOf(lines[i]) :
        IsDict(ContentOf(lines[i])[k].v["input"])

\* one record per invocation, in invocation order, the commands being
\* those of metadata.bash_commands, and no outcome on the records that no
\* result can have been matched to
OneRecordPerInvocation ==
    LET commands_run == stats.commands_run.v IN
    /\ MapSeq(commands_run, LAMBDA c : c.command)
           = MapSeq(Invocations(file), CommandOf)
    /\ MapSeq(commands_run, LAMBDA c : c.command)
           = session.metadata.bash_commands
    /\ \A k \in DOMAIN commands_run :
           k > Len(AttachedResults(file, 0, 0)) =>
               /\ commands_run[k].exit_code = None
               /\ commands_run[k].is_error = None

\* C1: commands_run has exactly one record per Bash invocation with a
\* non-empty command, in invocation order (its commands are those of
\* metadata.bash_commands), also when tool-use ids repeat or are missing;
\* the invocations with no matched result have no exit_code and no
\* is_error.
C1_OneRecordPerInvocation ==
    pc = "stats" => OneRecordPerInvocation

\* What the code does keep of C1: the same, for the files whose
\* invocations have pairwise distinct ids.
C1_OneRecordPerInvocationWhenIdsDistinct ==
    (pc = "stats" /\ DistinctIds(file)) => OneRecordPerInvocation

\* compute_stats raises on these files only for a Bash call whose input is
\* not an object
CommandsRaiseOnlyOnNonObjectInput ==
    pc = "stats_raised" => (error = "AttributeError" /\ ~ObjectInputs(file))

\* the k-th result met while an invocation is pending is on the record of
\* the k-th invocation, with its exit code and its flags
FifoMatch ==
    LET commands_run == stats.commands_run.v
        results == AttachedResults(file, 0, 0)
    IN
    /\ Len(results) <= Len(commands_run)
    /\ \A k \in DOMAIN results :
           /\ commands_run[k].command = CommandOf(Invocations(file)[k])
           /\ commands_run[k].exit_code = results[k]["exitCode"]
           /\ commands_run[k].is_error = results[k]["is_error"]
           /\ commands_run[k].interrupted = JBool(FALSE)

\* C2: each bash result met while at least one invocation is pending goes
\* to the oldest pending invocation: the k-th such result puts its exit
\* code, error flag and interrupted flag on the k-th invocation, which is
\* never one that comes after the result.
C2_StrictFifo ==
    pc = "stats" => FifoMatch

\* What the code does keep of C2: the same, for the files whose
\* invocations have pairwise distinct ids.
C2_StrictFifoWhenIdsDistinct ==
    (pc = "stats" /\ DistinctIds(file)) => FifoMatch

---------------------------------------------------------------------------
(* Session files of Read, Edit and Write calls *)

FileCall(name, path) ==
    Calls(<<ToolUse(JStr("t1"), name, JObj([file_path |-> JStr(path)]))>>)

\* each of the three tools on each of two files, a Read without a path,
\* and a record that reads and edits a third file
FileLines ==
    {FileCall(name, path) : name \in {"Read", "Edit", "Write"},
                            path \in {"a.py", "b.py"}}
    \cup {Calls(<<ToolUse(JStr("t1"), "Read", JObj(EmptyDict))>>),
          Calls(<<ToolUse(JStr("t1"), "Read", JObj([file_path |-> JStr("c.py")])),
                  ToolUse(JStr("t2"), "Edit", JObj([file_path |-> JStr("c.py")]))>>)}

MaxFileLines == 4

ReadFileLine == ReadLine(FileLines, MaxFileLines)

FileNext == ReadFileLine \/ EndOfFile \/ ComputeStats

SpecFiles == ParseInit /\ [][FileNext]_vars

\* the sets of the metadata, which parse_session has turned into lists
ReadSet == Range(session.metadata.files_read.v)
WrittenSet == Range(session.metadata.files_written.v)
CreatedSet == Range(session.metadata.files_created.v)

\* C10: in files_touched the read list shares no file with the written list
\* and none with the created list: a file that is in the read set and in
\* the written (or created) set of the metadata is reported as written (or
\* created) and not as read, whatever the order of the read and the edit;
\* the other files that were read are reported as read.
C10_ReadDisjointFromWrittenAndCreated ==
    pc = "stats" =>
        /\ Range(stats.files_touched.read.v)
               \cap Range(stats.files_touched.written.v) = {}
        /\ Range(stats.files_touched.read.v)
               \cap Range(stats.files_touched.created.v) = {}
        /\ \A f \in ReadSet \cap WrittenSet :
               /\ f \in Range(stats.files_touched.written.v)
               /\ f \notin Range(stats.files_touched.read.v)
        /\ \A f \in ReadSet \cap CreatedSet :
               /\ f \in Range(stats.files_touched.created.v)
               /\ f \notin Range(stats.files_touched.read.v)
        /\ \A f \in (ReadSet \ WrittenSet) \ CreatedSet :
               f \in Range(stats.files_touched.read.v)

\* a.py is read and then edited, b.py is created and then read, and the
\* statistics report neither as read
C10_Witness ==
    /\ pc = "stats"
    /\ file = <<FileCall("Read", "a.py"), FileCall("Edit", "a.py"),
                FileCall("Write", "b.py"), FileCall("Read", "b.py")>>
    /\ stats.files_touched.read = JList(<<>>)
    /\ stats.files_touched.written = JList(<<JStr("a.py")>>)
    /\ stats.files_touched.created = JList(<<JStr("b.py")>>)

---------------------------------------------------------------------------
(* Session files of tool calls of several tools *)

\* a tool_use part with the given name and no input; an Absent name leaves
\* the key out
NamedToolUse(name) == JObj(Field("name", name) @@ [type |-> JStr("tool_use")])

\* calls of two tools, a call whose name is null, missing, or a list
\* (which cannot be a dict key), a record of two calls, a record of text
\* only and a user record
ToolLines ==
    {Calls(<<NamedToolUse(name)>>) :
        name \in {JStr("Bash"), JStr("Read"), None, Absent, JList(<<>>)}}
    \cup {Calls(<<NamedToolUse(JStr("Read")), NamedToolUse(JStr("Grep"))>>),
          Calls(<<JObj([type |-> JStr("text"), text |-> JStr("ok")])>>),
          User([message |-> JObj([content |-> JStr("go on")])])}

MaxToolLines == 3

ReadToolLine == ReadLine(ToolLines, MaxToolLines)

ToolNext == ReadToolLine \/ EndOfFile \/ ComputeStats

SpecTools == ParseInit /\ [][ToolNext]_vars

\* sum(d.values())
RECURSIVE SumValues(_)
SumValues(d) ==
    IF DOMAIN d = {} THEN 0
    ELSE LET k == CHOOSE x \in DOMAIN d : TRUE
         IN d[k] + SumValues([x \in DOMAIN d \ {k} |-> d[x]])

\* C11: after every record that parse_session has processed, and in the
\* final metadata, total_tool_calls is the sum of the values of
\* tool_call_counts.
C11_ToolCallsSumToTotal ==
    session.metadata.total_tool_calls
        = SumValues(session.metadata.tool_call_counts)

\* three records have been processed, with calls of several tools, one of
\* them called twice, and the session is finished
C11_Witness ==
    /\ pc = "parsed"
    /\ Len(file) = 3
    /\ session.metadata.total_tool_calls = 4
    /\ Cardinality(DOMAIN session.metadata.tool_call_counts) = 3
    /\ session.metadata.tool_call_counts[JStr("Read")] = 2

---------------------------------------------------------------------------
(* Session files of messages of the four roles, for the count of turns *)

TurnLines ==
    {User([message |-> JObj([content |-> JStr("hi")])]),
     Assistant(<<>>),
     System(<<>>),
     Progress(<<>>)}

MaxTurnLines == 5

ReadTurnLine == ReadLine(TurnLines, MaxTurnLines)

TurnNext == ReadTurnLine \/ EndOfFile \/ ComputeStats

SpecTurns == ParseInit /\ [][TurnNext]_vars

RolesOf(msgs) == [i \in 1..Len(msgs) |-> msgs[i].role]

Speakers == {"user", "assistant"}

\* the positions of the assistant messages whose nearest preceding message
\* of role user or assistant is a user message
RepliesToUser(roles) ==
    {i \in 1..Len(roles) :
        /\ roles[i] = "assistant"
        /\ \E j \in 1..(i - 1) :
              /\ roles[j] = "user"
              /\ \A k \in (j + 1)..(i - 1) : roles[k] \notin Speakers}

NumberOfRole(roles, role) ==
    Cardinality({i \in 1..Len(roles) : roles[i] = role})

\* C18: _count_turns returns the number of assistant messages whose
\* nearest preceding message of role user or assistant is a user message,
\* system and progress messages being ignored; so the count is at most the
\* number of user messages and at most the number of assistant messages,
\* and two consecutive assistant messages after one user message count as
\* one turn.
C18_TurnsAreRepliesToUser ==
    pc = "stats" =>
        /\ stats.conversation_turns
              = Cardinality(RepliesToUser(RolesOf(session.messages)))
        /\ stats.conversation_turns
              <= NumberOfRole(RolesOf(session.messages), "user")
        /\ stats.conversation_turns
              <= NumberOfRole(RolesOf(session.messages), "assistant")
        /\ RolesOf(session.messages) = <<"user", "assistant", "assistant">>
              => stats.conversation_turns = 1

\* a user message, a system message in between, the reply, a second
\* assistant message and a user message without reply: one turn
C18_Witness ==
    /\ pc = "stats"
    /\ RolesOf(session.messages)
          = <<"user", "system", "assistant", "assistant", "user">>
    /\ stats.conversation_turns = 1

\* one user message followed by two assistant messages is one turn
C18_TwoRepliesOneTurn ==
    /\ pc = "stats"
    /\ RolesOf(session.messages) = <<"user", "assistant", "assistant">>
    /\ stats.conversation_turns = 1

---------------------------------------------------------------------------
(* Lines of the exclusion rules file, typed piece by piece and tokenized *)

\* the pieces a line is made of: the operator words in mixed case, a
\* letter, a hyphen, a space and a double quote
LinePieces == {"and", "Or", "x", "-", " ", Quote}

MaxLineLen == 6

TokenInit ==
    /\ RunsIdle
    /\ ExportIdle
    /\ QuickIdle
    /\ ClassifyIdle
    /\ RulesIdle
    /\ ParseIdle
    /\ pc = "typing"
    /\ rule_line = ""
    /\ rule_tokens = <<>>

\* the line holds one more piece, up to MaxLineLen characters in all
TypePiece ==
    /\ pc = "typing"
    /\ \E piece \in LinePieces :
           /\ Len(rule_line) + Len(piece) <= MaxLineLen
           /\ rule_line' = rule_line \o piece
    /\ UNCHANGED <<pc, rule_tokens, classifyVars, ruleVars,
                 parseVars, quickVars, exportVars, runVars>>

\* the call _tokenize_rule(line)
Tokenize ==
    /\ pc = "typing"
    /\ rule_tokens' = _tokenize_rule(rule_line)
    /\ pc' = "tokenized"
    /\ UNCHANGED <<rule_line, classifyVars, ruleVars, parseVars,
                 quickVars, exportVars, runVars>>

TokenNext == TypePiece \/ Tokenize

SpecTokens == TokenInit /\ [][TokenNext]_vars

\* the token a run of non-whitespace characters stands for when only
\* whitespace separates tokens: an operator if the whole run is AND or OR
\* in either case, a word term otherwise
TokenOfRun(run) ==
    IF Lower(run) = "and" THEN OpAND
    ELSE IF Lower(run) = "or" THEN OpOR
    ELSE Term("word", run)

\* the tokens of a line split on whitespace only, rest starting at a token:
\* a double quote opens a span up to the next double quote, which is one
\* phrase term, or without one a word term of the rest of the line
RECURSIVE WhitespaceSplit(_)
WhitespaceSplit(rest) ==
    IF rest = "" THEN <<>>
    ELSE IF SubSeq(rest, 1, 1) = Quote
    THEN IF Find(rest, Quote, 2) = 0
         THEN <<Term("word", Strip(SubSeq(rest, 2, Len(rest))))>>
         ELSE <<Term("phrase", SubSeq(rest, 2, Find(rest, Quote, 2) - 1))>>
              \o WhitespaceSplit(
                     LStrip(SubSeq(rest, Find(rest, Quote, 2) + 1, Len(rest))))
    ELSE <<TokenOfRun(SubSeq(rest, 1, NonSpaceRunEnd(rest, 0)))>>
         \o WhitespaceSplit(
                LStrip(SubSeq(rest, NonSpaceRunEnd(rest, 0) + 1, Len(rest))))

\* C19: _tokenize_rule splits on whitespace only: a run of non-whitespace
\* characters outside quotes is an operator only if the whole run is AND
\* or OR in either case, and one word term otherwise; a double-quoted span
\* is one phrase term; an unterminated quote takes the rest of the line as
\* one word term.
C19_SplitsOnWhitespaceOnly ==
    pc = "tokenized" => rule_tokens = WhitespaceSplit(Strip(rule_line))

\* an operator word directly followed by a character that is neither a
\* word character nor whitespace
GluedOperator(str) ==
    \E word \in {"and", "or"} : \E c \in {"-", Quote} :
        Contains(Lower(str), word \o c)

\* what the tokenizer does keep: lines without an operator word glued to a
\* hyphen or a quote are split on whitespace only
C19_SplitsOnWhitespaceUnlessOperatorGlued ==
    (pc = "tokenized" /\ ~GluedOperator(rule_line))
        => rule_tokens = WhitespaceSplit(Strip(rule_line))

\* the line or-x is tokenized as the operator OR and the word -x
C19_OperatorSplitOffRun ==
    (pc = "tokenized" /\ rule_line = "Or-x")
        => rule_tokens = <<OpOR, Term("word", "-x")>>

---------------------------------------------------------------------------
(* Session files read both by parse_session and by quick_session_info *)

\* a file-history-snapshot record
Snapshot(fields) ==
    Json(JObj([type |-> JStr("file-history-snapshot")] @@ fields))

\* user records with and without a title, an assistant record, snapshot
\* records with the timestamp inside the snapshot and at the top level, and
\* a blank line
InfoLines ==
    {User([timestamp |-> JStr("2026-01-01T10:00:00Z"),
           message |-> JObj([content |-> JStr("fix the bug")])]),
     User([message |-> JObj([content |-> JStr("<env>x</env>")])]),
     Assistant([timestamp |-> JStr("2026-01-01T10:00:30Z")]),
     Snapshot([snapshot |-> JObj([timestamp |-> JStr("2026-01-01T09:59:00Z")])]),
     Snapshot([timestamp |-> JStr("2026-01-01T10:01:00Z"),
               snapshot |-> JObj(EmptyDict)]),
     Blank}

MaxInfoLines == 3

\* the sizes of the file: the largest that skips the second pass and the
\* smallest that runs it
FileSizes == {TailThreshold, TailThreshold + 1}

ReadInfoLine == ReadLine(InfoLines, MaxInfoLines)

\* the call quick_session_info(filepath) on the file that was parsed
QuickInfo ==
    /\ pc = "parsed"
    /\ \E size \in FileSizes :
       \E r \in {quick_session_info(file, size)} :
           /\ file_size' = size
           /\ IF IsRaise(r)
              THEN /\ pc' = "quick_raised"
                   /\ error' = r.exc
                   /\ UNCHANGED quick_info
              ELSE /\ pc' = "peeked"
                   /\ quick_info' = r
                   /\ UNCHANGED error
    /\ UNCHANGED <<file, session, stats, classifyVars, ruleVars,
                 tokenVars, exportVars, runVars>>

InfoNext == ReadInfoLine \/ EndOfFile \/ QuickInfo

SpecInfo == ParseInit /\ [][InfoNext]_vars

\* C20: for a session file of at most 80 lines and 10000 bytes,
\* quick_session_info returns the title, the first timestamp and the last
\* timestamp that parse_session returns, file-history-snapshot records with
\* the timestamp inside the snapshot included.
C20_QuickInfoAgreesWithParse ==
    (pc = "peeked" /\ Len(file) <= QuickLineLimit /\ file_size <= TailThreshold)
        => /\ quick_info.title = session.title
           /\ quick_info.first_timestamp = session.metadata.first_timestamp
           /\ quick_info.last_timestamp = session.metadata.last_timestamp

\* a record whose only timestamp is inside its snapshot
TimestampInSnapshot(ln) ==
    /\ ln.kind = "json"
    /\ IsDict(ln.value)
    /\ ~Truthy(Get(ln.value.v, "timestamp", None))
    /\ Get(ln.value.v, "type", None) = JStr("file-history-snapshot")
    /\ IsDict(Get(ln.value.v, "snapshot", None))
    /\ Truthy(Get(ln.value.v["snapshot"].v, "timestamp", None))

\* what quick_session_info does keep: the title always agrees, and the two
\* timestamps agree for files without a timestamp inside a snapshot, with
\* or without the second pass
C20_QuickInfoAgreesOnTopLevelTimestamps ==
    pc = "peeked"
        => /\ quick_info.title = session.title
           /\ (\A i \in 1..Len(file) : ~TimestampInSnapshot(file[i]))
                 => /\ quick_info.first_timestamp
                         = session.metadata.first_timestamp
                    /\ quick_info.last_timestamp
                         = session.metadata.last_timestamp

\* a file of one snapshot record: parse_session takes the timestamp of the
\* snapshot, quick_session_info has none
C20_SnapshotTimestampMissed ==
    (pc = "peeked" /\ Len(file) = 1 /\ TimestampInSnapshot(file[1]))
        => /\ session.metadata.first_timestamp = JStr("2026-01-01T09:59:00Z")
           /\ quick_info.first_timestamp = None
           /\ quick_info.last_timestamp = None

---------------------------------------------------------------------------
(* scripts/export.py and api/export_api.py: the export marker and the
   export runs.  Both programs keep the marker in the same file,
   ~/.claude-code-chat-browser/export_state.json.  The file is absent, holds
   text that is not JSON (Malformed), or holds a JSON object (Json). *)

FileAbsent == [kind |-> "absent"]

\* datetime.now().isoformat() and the output directory of the run
NowIso == JStr("2026-02-25T12:00:00")
OutDir == JStr("/out")

\* scripts/export.py: json.load is called outside any try
_load_state(f) ==
    IF f.kind = "absent" THEN JObj(EmptyDict)
    ELSE IF f.kind = "malformed" THEN Raise("JSONDecodeError")
    ELSE IF ~Has(f.value.v, "sessions") /\ ~Has(f.value.v, "lastExportTime")
    THEN JObj([sessions |-> f.value])
    ELSE f.value

_save_state(sessions, count, out_dir) ==
    Json(JObj([lastExportTime |-> NowIso,
               exportedCount |-> JInt(count),
               exportDir |-> out_dir,
               sessions |-> sessions]))

\* api/export_api.py: any exception of the read gives {}
_read_state(f) == IF f.kind = "json" THEN f.value ELSE JObj(EmptyDict)

\* state = _read_state(); two keys are set and the sessions of the run are
\* merged into state["sessions"]; every other key of the file is kept
_write_state(f, sessions_map, count) ==
    Json(JObj([lastExportTime |-> NowIso,
               exportedCount |-> JInt(count),
               sessions |->
                   JObj(sessions_map
                        @@ Get(_read_state(f).v, "sessions", JObj(EmptyDict)).v)]
              @@ _read_state(f).v))

\* parse_session as one call: the loop over the lines and what follows it
Parsed(msgs, fin) ==
    IF IsRaise(fin) THEN fin
    ELSE [title |-> JStr(fin.title), messages |-> msgs,
          metadata |-> fin.metadata]

ParsedLines(r) ==
    IF IsRaise(r) THEN r ELSE Parsed(r.messages, Finalize(r.messages, r.metadata))

parse_session(lines) == ParsedLines(ParseFile(lines))

(* The session files of the batch runs, and what parse_session and
   compute_stats give for each of them, computed once per file *)

\* a session that is exported; one whose statistics raise (a null model
\* with tokens); one whose parse raises (a null message); an untitled one
GoodFile == <<User([message |-> JObj([content |-> JStr("fix the bug")])])>>
StatsRaisingFile ==
    <<User([message |-> JObj([content |-> JStr("fix the bug")])]),
      UsageRecord(None, JObj([input_tokens |-> JInt(1)]))>>
ParseRaisingFile == <<User([message |-> None])>>
UntitledFile == <<Assistant(<<>>)>>

SessionFiles == {GoodFile, StatsRaisingFile, ParseRaisingFile, UntitledFile}

\* parse_session(sess_info["path"])
ParsedFiles == [lines \in SessionFiles |-> parse_session(lines)]

\* compute_stats(session) for the session of a file that parses
StatsOfParsed(sess) == IF IsRaise(sess) THEN sess ELSE compute_stats(sess)

StatsOfFiles == [lines \in SessionFiles |-> StatsOfParsed(ParsedFiles[lines])]

\* last_export.get(sid, 0)
PrevMtime(last_export, sid) ==
    IF sid \in DOMAIN last_export THEN last_export[sid].v ELSE 0

\* scripts/export.py: sess_info["modified"] <= prev_mtime
CliSkips(modified, prev_mtime) == modified <= prev_mtime

\* api/export_api.py: curr_mtime and curr_mtime <= prev_mtime
ApiSkips(curr_mtime, prev_mtime) ==
    curr_mtime # 0 /\ curr_mtime <= prev_mtime

\* cmd_export, the rest of the loop body for a session that has its
\* statistics: compute_stats is called outside the try, so its exception
\* ends the run; the rendering is taken to succeed
CliExported(acc, info, stats_) ==
    IF IsRaise(stats_) THEN [acc EXCEPT !.raised = stats_.exc]
    ELSE [acc EXCEPT !.manifest = Append(@, info.id),
                     !.last_export = (info.id :> JInt(info.modified)) @@ @]

\* for a session that has been parsed: a failed parse is a warning
CliParsed(acc, info, sess) ==
    IF IsRaise(sess) THEN acc
    ELSE IF sess.title = JStr(UntitledSession) THEN acc
    ELSE CliExported(acc, info, StatsOfFiles[info.lines])

\* the body of the loop over the sessions; the run has no exclusion rules
CliSession(acc, info, since) ==
    IF since = "last"
       /\ CliSkips(info.modified, PrevMtime(acc.last_export, info.id))
    THEN acc
    ELSE CliParsed(acc, info, ParsedFiles[info.lines])

RECURSIVE CliLoop(_, _, _)
CliLoop(sessions, acc, since) ==
    IF sessions = <<>> \/ acc.raised # "" THEN acc
    ELSE CliLoop(Tail(sessions), CliSession(acc, Head(sessions), since), since)

\* what a run leaves: the marker file and the record of the run
RunOf(op, since, f, manifest, raised, after) ==
    [state_file |-> after,
     last_run |-> [op |-> op, since |-> since, before |-> f,
                   exported |-> manifest, raised |-> raised]]

\* the end of cmd_export: nothing is written when the run was ended by an
\* exception or exported nothing
CliEnd(f, since, acc) ==
    RunOf("cmd_export", since, f, acc.manifest, acc.raised,
          IF acc.raised # "" \/ acc.manifest = <<>> THEN f
          ELSE _save_state(JObj(acc.last_export), Len(acc.manifest), OutDir))

CliRun(f, sessions, since, state) ==
    IF IsRaise(state) THEN RunOf("cmd_export", since, f, <<>>, state.exc, f)
    ELSE CliEnd(f, since,
                CliLoop(sessions,
                        [last_export |-> Get(state.v, "sessions",
                                             JObj(EmptyDict)).v,
                         manifest |-> <<>>, raised |-> ""],
                        since))

cmd_export(f, sessions, since) ==
    CliRun(f, sessions, since,
           IF since = "last" THEN _load_state(f) ELSE JObj(EmptyDict))

\* bulk_export: the whole loop body is inside the try
ApiExported(acc, info, stats_) ==
    IF IsRaise(stats_) THEN acc
    ELSE [acc EXCEPT !.manifest = Append(@, info.id),
                     !.new_sessions_map =
                         (info.id :> JInt(info.modified)) @@ @]

ApiParsed(acc, info, sess) ==
    IF IsRaise(sess) THEN acc
    ELSE IF sess.title = JStr(UntitledSession) THEN acc
    ELSE ApiExported(acc, info, StatsOfFiles[info.lines])

ApiSession(acc, info, since, last_export_sessions) ==
    IF since = "last"
       /\ ApiSkips(info.modified, PrevMtime(last_export_sessions, info.id))
    THEN acc
    ELSE ApiParsed(acc, info, ParsedFiles[info.lines])

RECURSIVE ApiLoop(_, _, _, _)
ApiLoop(sessions, acc, since, last_export_sessions) ==
    IF sessions = <<>> THEN acc
    ELSE ApiLoop(Tail(sessions),
                 ApiSession(acc, Head(sessions), since, last_export_sessions),
                 since, last_export_sessions)

\* the end of bulk_export: the marker is written if count > 0
ApiEnd(f, since, acc) ==
    RunOf("bulk_export", since, f, acc.manifest, "",
          IF Len(acc.manifest) > 0
          THEN _write_state(f, acc.new_sessions_map, Len(acc.manifest))
          ELSE f)

bulk_export(f, sessions, since) ==
    ApiEnd(f, since,
           ApiLoop(sessions,
                   [manifest |-> <<>>, new_sessions_map |-> EmptyDict],
                   since,
                   IF since = "last"
                   THEN Get(_read_state(f).v, "sessions", JObj(EmptyDict)).v
                   ELSE EmptyDict))

\* sorted(sessions, key=modified, reverse=True): a stable sort, the
\* sessions of equal time keep their order
RECURSIVE ByModifiedDesc(_)
ByModifiedDesc(sessions) ==
    IF sessions = <<>> THEN <<>>
    ELSE LET i == CHOOSE j \in 1..Len(sessions) :
                      /\ \A k \in 1..Len(sessions) :
                            sessions[k].modified <= sessions[j].modified
                      /\ \A k \in 1..(j - 1) :
                            sessions[k].modified < sessions[j].modified
         IN <<sessions[i]>>
            \o ByModifiedDesc(SubSeq(sessions, 1, i - 1)
                              \o SubSeq(sessions, i + 1, Len(sessions)))

\* scripts/export.py, _list_sessions: the loop body is inside the try; the
\* run gives the ids of the sessions it prints
ListParsed(shown, info, sess) ==
    IF IsRaise(sess) THEN shown
    ELSE IF sess.title = JStr(UntitledSession) THEN shown
    ELSE Append(shown, info.id)

RECURSIVE ListLoop(_, _)
ListLoop(sessions, shown) ==
    IF sessions = <<>> THEN shown
    ELSE ListLoop(Tail(sessions),
                  ListParsed(shown, Head(sessions),
                             ParsedFiles[Head(sessions).lines]))

_list_sessions(f, sessions) ==
    RunOf("_list_sessions", "", f, ListLoop(ByModifiedDesc(sessions), <<>>),
          "", f)

\* scripts/export.py, _aggregate_stats: parse_session and compute_stats are
\* inside the try; the run gives the ids of the sessions it counts
CountedWithStats(counted, info, stats_) ==
    IF IsRaise(stats_) THEN counted ELSE Append(counted, info.id)

AggregateParsed(counted, info, sess) ==
    IF IsRaise(sess) THEN counted
    ELSE IF sess.title = JStr(UntitledSession) THEN counted
    ELSE CountedWithStats(counted, info, StatsOfFiles[info.lines])

RECURSIVE AggregateLoop(_, _)
AggregateLoop(sessions, counted) ==
    IF sessions = <<>> THEN counted
    ELSE AggregateLoop(Tail(sessions),
                       AggregateParsed(counted, Head(sessions),
                                       ParsedFiles[Head(sessions).lines]))

_aggregate_stats(f, sessions) ==
    RunOf("_aggregate_stats", "", f, AggregateLoop(sessions, <<>>), "", f)

\* api/projects.py, get_project_sessions: a session that fails is listed
\* with the title "Error parsing session"
ProjectParsed(result, info, sess) ==
    IF IsRaise(sess) THEN Append(result, info.id)
    ELSE IF sess.title = JStr(UntitledSession) THEN result
    ELSE Append(result, info.id)

RECURSIVE ProjectLoop(_, _)
ProjectLoop(sessions, result) ==
    IF sessions = <<>> THEN result
    ELSE ProjectLoop(Tail(sessions),
                     ProjectParsed(result, Head(sessions),
                                   ParsedFiles[Head(sessions).lines]))

get_project_sessions(f, sessions) ==
    RunOf("get_project_sessions", "", f, ProjectLoop(sessions, <<>>), "", f)

\* api/search.py: only parse_session is inside the try; the text of a
\* message is msg.get("text", "") or msg.get("content", ""), and
\* text.lower() raises for a text that is no string
SearchText(msg) ==
    Or(Get(msg, "text", JStr("")), Get(msg, "content", JStr("")))

MaxResults == 50

RECURSIVE SearchMessages(_, _, _, _)
SearchMessages(msgs, acc, info, query) ==
    IF msgs = <<>> \/ acc.raised # "" \/ Len(acc.results) >= MaxResults
    THEN acc
    ELSE IF ~IsStr(SearchText(Head(msgs)))
    THEN [acc EXCEPT !.raised = "AttributeError"]
    ELSE IF Contains(Lower(SearchText(Head(msgs)).v), query)
    THEN SearchMessages(Tail(msgs), [acc EXCEPT !.results = Append(@, info.id)],
                        info, query)
    ELSE SearchMessages(Tail(msgs), acc, info, query)

SearchParsed(acc, info, sess, query) ==
    IF IsRaise(sess) THEN acc
    ELSE SearchMessages(sess.messages, acc, info, query)

RECURSIVE SearchLoop(_, _, _)
SearchLoop(sessions, acc, query) ==
    IF sessions = <<>> \/ acc.raised # "" \/ Len(acc.results) >= MaxResults
    THEN acc
    ELSE SearchLoop(Tail(sessions),
                    SearchParsed(acc, Head(sessions),
                                 ParsedFiles[Head(sessions).lines], query),
                    query)

SearchEnd(f, acc) == RunOf("search", "", f, acc.results, acc.raised, f)

search(f, sessions, query) ==
    SearchEnd(f, SearchLoop(sessions, [results |-> <<>>, raised |-> ""], query))

---------------------------------------------------------------------------
(* Batch runs over a project of two session files and the marker file *)

SessionIds == <<"s1", "s2">>

\* st_mtime of a session file, in seconds since the epoch: positive for a
\* file written after 1970
MaxTime == 2
Mtimes == 1..MaxTime

\* the marker files a run can find: none, a truncated one, one in the
\* current schema and a legacy one, with or without the second session
MarkerSessions ==
    {JObj([s1 |-> JInt(1)]), JObj([s1 |-> JInt(1), s2 |-> JInt(2)])}

StateFiles ==
    {FileAbsent, Malformed}
    \cup {_save_state(m, 1, OutDir) : m \in MarkerSessions}
    \cup {Json(m) : m \in MarkerSessions}

MaxRuns == 2

Queries == {"bug"}

ExportInit ==
    /\ RunsIdle
    /\ ClassifyIdle
    /\ RulesIdle
    /\ ParseIdle
    /\ TokenIdle
    /\ QuickIdle
    /\ pc = 0
    /\ state_file \in StateFiles
    /\ session_files \in
          {[i \in 1..Len(SessionIds) |->
               [id |-> SessionIds[i], modified |-> 1, lines |-> files[i]]] :
           files \in [1..Len(SessionIds) -> SessionFiles]}
    /\ last_run = [op |-> "none"]

\* the run r of a batch operation has ended; pc counts the runs
Ran(r) ==
    /\ pc < MaxRuns
    /\ pc' = pc + 1
    /\ state_file' = r.state_file
    /\ last_run' = r.last_run
    /\ UNCHANGED <<session_files, classifyVars, ruleVars, parseVars,
                   tokenVars, quickVars, runVars>>

CmdExport ==
    \E since \in {"all", "last"} :
        \E r \in {cmd_export(state_file, session_files, since)} : Ran(r)

BulkExport ==
    \E since \in {"all", "last"} :
        \E r \in {bulk_export(state_file, session_files, since)} : Ran(r)

ListSessions ==
    \E r \in {_list_sessions(state_file, session_files)} : Ran(r)

AggregateStats ==
    \E r \in {_aggregate_stats(state_file, session_files)} : Ran(r)

ProjectSessions ==
    \E r \in {get_project_sessions(state_file, session_files)} : Ran(r)

Search ==
    \E query \in Queries :
        \E r \in {search(state_file, session_files, query)} : Ran(r)

\* a session file is written to between two runs: its mtime grows
SessionModified ==
    /\ pc < MaxRuns
    /\ \E i \in 1..Len(session_files) :
          /\ session_files[i].modified < MaxTime
          /\ session_files' =
                 [session_files EXCEPT ![i].modified = @ + 1]
    /\ last_run' = [op |-> "none"]
    /\ UNCHANGED <<pc, state_file, classifyVars, ruleVars, parseVars,
                   tokenVars, quickVars, runVars>>

ExportNext ==
    \/ CmdExport
    \/ BulkExport
    \/ ListSessions
    \/ AggregateStats
    \/ ProjectSessions
    \/ Search
    \/ SessionModified

SpecExport == ExportInit /\ [][ExportNext]_vars

---------------------------------------------------------------------------
(* The marker as the specification reads it *)

IdSet == {SessionIds[i] : i \in 1..Len(SessionIds)}

\* a bare mapping from session id to time
IsLegacy(f) ==
    /\ f.kind = "json"
    /\ ~Has(f.value.v, "sessions")
    /\ ~Has(f.value.v, "lastExportTime")

\* the mapping from session id to time that a marker file stands for: the
\* mapping under sessions, the whole of a legacy file, nothing otherwise
EntriesOf(f) ==
    IF f.kind # "json" THEN EmptyDict
    ELSE IF IsLegacy(f) THEN f.value.v
    ELSE Get(f.value.v, "sessions", JObj(EmptyDict)).v

\* the time the marker records for a session, zero without an entry
RecordedTime(f, sid) == PrevMtime(EntriesOf(f), sid)

ExportRun == last_run.op \in {"cmd_export", "bulk_export"}
SinceLastRun == ExportRun /\ last_run.since = "last"
Exported == Range(last_run.exported)

\* the run has written the marker
Wrote == ExportRun /\ last_run.raised = "" /\ last_run.exported # <<>>

\* a session that parses, has a title and has statistics
Exportable(info) ==
    /\ ~IsRaise(ParsedFiles[info.lines])
    /\ ParsedFiles[info.lines].title # JStr(UntitledSession)
    /\ ~IsRaise(StatsOfFiles[info.lines])

InfoOf(i) == session_files[i]

\* the sessions the last run exported are the ones newer than the marker
\* records: exported only if newer, skipped if of the recorded time, and,
\* in a run that no exception ended, exported if exportable and without an
\* entry or newer
OnlyNewerExported ==
    \A i \in 1..Len(session_files) :
        /\ InfoOf(i).id \in Exported
              => InfoOf(i).modified
                    > RecordedTime(last_run.before, InfoOf(i).id)
        /\ InfoOf(i).modified = RecordedTime(last_run.before, InfoOf(i).id)
              => InfoOf(i).id \notin Exported
        /\ (/\ last_run.raised = ""
            /\ Exportable(InfoOf(i))
            /\ InfoOf(i).id \notin DOMAIN EntriesOf(last_run.before))
              => InfoOf(i).id \in Exported
        /\ (/\ last_run.raised = ""
            /\ Exportable(InfoOf(i))
            /\ InfoOf(i).modified
                  > RecordedTime(last_run.before, InfoOf(i).id))
              => InfoOf(i).id \in Exported

\* C12: in since-last mode, in the CLI export and in the bulk-export
\* endpoint, a session is exported only if the mtime of its file is
\* strictly greater than the time the marker records for its id; a session
\* without an entry is compared with zero and is eligible; a session whose
\* mtime equals the recorded time is skipped.
C12_ExportedOnlyIfNewer == SinceLastRun => OnlyNewerExported

\* what the filters do keep: the same, except for the endpoint over a
\* legacy marker, whose times it does not read
C12_ExportedOnlyIfNewerUnlessApiReadsLegacy ==
    (SinceLastRun /\ ~(last_run.op = "bulk_export" /\ IsLegacy(last_run.before)))
        => OnlyNewerExported

\* the endpoint in since-last mode over a legacy marker exports every
\* exportable session, the ones of the recorded time included
C12_ApiExportsRecordedOverLegacy ==
    (/\ last_run.op = "bulk_export"
     /\ last_run.since = "last"
     /\ IsLegacy(last_run.before))
        => \A i \in 1..Len(session_files) :
              Exportable(InfoOf(i)) => InfoOf(i).id \in Exported

\* a CLI run in since-last mode over two good sessions of mtime 1, the
\* first recorded at time 1, the second without an entry: the second alone
\* is exported
C12_Witness ==
    /\ last_run.op = "cmd_export"
    /\ last_run.since = "last"
    /\ last_run.before = _save_state(JObj([s1 |-> JInt(1)]), 1, OutDir)
    /\ \A i \in 1..Len(session_files) :
          InfoOf(i).modified = 1 /\ InfoOf(i).lines = GoodFile
    /\ last_run.exported = <<"s2">>

\* the same for the bulk-export endpoint, after the first session was
\* written to again: both are exported
C12_ApiWitness ==
    /\ last_run.op = "bulk_export"
    /\ last_run.since = "last"
    /\ last_run.before = _save_state(JObj([s1 |-> JInt(1)]), 1, OutDir)
    /\ InfoOf(1).modified = 2
    /\ last_run.exported = <<"s1", "s2">>

\* C13: reading the marker gives an empty state without raising whenever
\* the marker file is absent or unreadable, in the CLI (_load_state) and in
\* the API (_read_state), so that a since-last run then treats every
\* session as eligible.
C13_UnreadableMarkerIsEmptyState ==
    (SinceLastRun /\ last_run.before.kind \in {"absent", "malformed"})
        => /\ last_run.op = "cmd_export"
                 => _load_state(last_run.before) = JObj(EmptyDict)
           /\ last_run.op = "bulk_export"
                 => _read_state(last_run.before) = JObj(EmptyDict)
           /\ last_run.raised \notin {"JSONDecodeError"}
           /\ last_run.raised = ""
                 => \A i \in 1..Len(session_files) :
                       Exportable(InfoOf(i)) => InfoOf(i).id \in Exported

\* what the readers do keep: the API reader gives an empty state for an
\* absent and for an unreadable file, the CLI reader for an absent file, and
\* the runs that follow export every session that can be exported, up to
\* the first session of a CLI run whose statistics raise
C13_EmptyStateUnlessCliReadsUnreadable ==
    /\ state_file.kind \in {"absent", "malformed"}
          => _read_state(state_file) = JObj(EmptyDict)
    /\ state_file.kind = "absent"
          => _load_state(state_file) = JObj(EmptyDict)
    /\ (/\ SinceLastRun
        /\ last_run.before.kind \in {"absent", "malformed"}
        /\ last_run.op = "bulk_export" \/ last_run.before.kind = "absent"
        /\ last_run.raised = "")
          => \A i \in 1..Len(session_files) :
                Exportable(InfoOf(i)) => InfoOf(i).id \in Exported

\* the CLI run in since-last mode over an unreadable marker is ended by
\* the JSONDecodeError of _load_state and exports nothing
C13_CliRaisesOnUnreadable ==
    (/\ last_run.op = "cmd_export"
     /\ last_run.since = "last"
     /\ last_run.before.kind = "malformed")
        => /\ last_run.raised = "JSONDecodeError"
           /\ last_run.exported = <<>>
           /\ state_file = last_run.before

\* C14: every reader, CLI and API, treats a legacy marker file as
\* {sessions: that mapping}: the since-last filter uses its times, the
\* loaded state has no session id as a top-level key, and reading leaves
\* the file as it is.
C14_LegacyReadAsSessions ==
    (SinceLastRun /\ IsLegacy(last_run.before))
        => /\ last_run.op = "cmd_export"
                 => _load_state(last_run.before)
                       = JObj([sessions |-> last_run.before.value])
           /\ last_run.op = "bulk_export"
                 => _read_state(last_run.before)
                       = JObj([sessions |-> last_run.before.value])
           /\ \A i \in 1..Len(session_files) :
                 InfoOf(i).id \in Exported
                    => InfoOf(i).modified
                          > RecordedTime(last_run.before, InfoOf(i).id)
           /\ last_run.exported = <<>> => state_file = last_run.before

\* what the readers do keep: the CLI reader migrates a legacy file and the
\* CLI filter uses its times; a run that exports nothing leaves the file
C14_CliReadsLegacyAsSessions ==
    /\ IsLegacy(state_file)
          => _load_state(state_file) = JObj([sessions |-> state_file.value])
    /\ (SinceLastRun /\ IsLegacy(last_run.before))
          => /\ last_run.op = "cmd_export"
                => \A i \in 1..Len(session_files) :
                      InfoOf(i).id \in Exported
                         => InfoOf(i).modified
                               > RecordedTime(last_run.before, InfoOf(i).id)
             /\ last_run.exported = <<>> => state_file = last_run.before

\* the API reader gives a legacy file as it is, ids at the top level, and
\* the since-last filter of the API finds no time in it
C14_ApiReadsLegacyAsIs ==
    /\ IsLegacy(state_file) => _read_state(state_file) = state_file.value
    /\ (/\ last_run.op = "bulk_export"
        /\ last_run.since = "last"
        /\ IsLegacy(last_run.before))
          => \A i \in 1..Len(session_files) :
                Exportable(InfoOf(i)) => InfoOf(i).id \in Exported

\* the session ids a marker file holds an entry for, under sessions or, as
\* in a legacy file, at the top level, and the time of the entry
SessionsKey(f) ==
    IF f.kind # "json" THEN EmptyDict
    ELSE Get(f.value.v, "sessions", JObj(EmptyDict)).v

HeldIds(f) ==
    IF f.kind # "json" THEN {}
    ELSE (DOMAIN f.value.v \cap IdSet) \cup DOMAIN SessionsKey(f)

HeldTime(f, sid) ==
    IF sid \in DOMAIN SessionsKey(f) THEN SessionsKey(f)[sid].v
    ELSE f.value.v[sid].v

MtimeOf(sid) ==
    session_files[CHOOSE i \in 1..Len(session_files) :
                      session_files[i].id = sid].modified

\* C15: an export run in since-last mode that writes the marker merges:
\* every per-session entry that was in the marker before the run is still
\* in it, the entries of the sessions that were not exported are unchanged,
\* and an entry changes only to the mtime of a session exported in this
\* run.
C15_WriteMergesEntries ==
    (SinceLastRun /\ Wrote)
        => \A sid \in HeldIds(last_run.before) :
              /\ sid \in HeldIds(state_file)
              /\ sid \notin Exported
                    => HeldTime(state_file, sid) = HeldTime(last_run.before, sid)
              /\ HeldTime(state_file, sid) # HeldTime(last_run.before, sid)
                    => /\ sid \in Exported
                       /\ HeldTime(state_file, sid) = MtimeOf(sid)

\* a since-last run of the endpoint that skips the first session, recorded
\* at its mtime, and exports the second: the marker holds both entries
C15_ApiMerges ==
    /\ last_run.op = "bulk_export"
    /\ last_run.since = "last"
    /\ SessionsKey(last_run.before) = [s1 |-> JInt(1)]
    /\ last_run.exported = <<"s2">>
    /\ SessionsKey(state_file) = [s1 |-> JInt(1), s2 |-> JInt(1)]

\* the same for the CLI, over a legacy marker, with the first session
\* written to again: its entry changes to the new mtime, the other stays
C15_CliMerges ==
    /\ last_run.op = "cmd_export"
    /\ last_run.since = "last"
    /\ last_run.before = Json(JObj([s1 |-> JInt(1), s2 |-> JInt(2)]))
    /\ last_run.exported = <<"s1">>
    /\ SessionsKey(state_file) = [s1 |-> JInt(2), s2 |-> JInt(2)]

\* what the writers do keep: except for a legacy marker written by the
\* endpoint, the entries the marker stands for are merged under sessions
C15_MergedUnderSessions ==
    (/\ SinceLastRun
     /\ Wrote
     /\ ~(last_run.op = "bulk_export" /\ IsLegacy(last_run.before)))
        => \A sid \in DOMAIN EntriesOf(last_run.before) :
              /\ sid \in DOMAIN EntriesOf(state_file)
              /\ sid \notin Exported
                    => EntriesOf(state_file)[sid]
                          = EntriesOf(last_run.before)[sid]

\* the endpoint over a legacy marker leaves the old entries at the top
\* level, out of sessions; the CLI run that follows reads sessions alone
\* and writes the file without them
C15_CliDropsTopLevelEntries ==
    (/\ last_run.op = "cmd_export"
     /\ Wrote
     /\ last_run.before.kind = "json")
        => DOMAIN state_file.value.v \cap IdSet = {}

MarkerKeys == {"lastExportTime", "exportedCount", "exportDir", "sessions"}

\* the file is a JSON object of the current schema, session ids only under
\* sessions
HasSchema(f) ==
    /\ f.kind = "json"
    /\ IsDict(f.value)
    /\ MarkerKeys \subseteq DOMAIN f.value.v
    /\ DOMAIN f.value.v \cap IdSet = {}
    /\ IsDict(f.value.v["sessions"])

\* C16: after any write of the marker by _save_state or _write_state,
\* whatever the file held before (absent, current schema, legacy), the file
\* is a JSON object that contains lastExportTime, exportedCount, exportDir
\* and sessions, with session ids only under sessions.
C16_WrittenMarkerHasSchema == Wrote => HasSchema(state_file)

\* what the writers do keep: the CLI always writes the four keys and no
\* other; the endpoint always writes lastExportTime, exportedCount and
\* sessions, and the whole schema over a file that had it
C16_CliWritesSchema ==
    /\ (Wrote /\ last_run.op = "cmd_export")
          => HasSchema(state_file) /\ DOMAIN state_file.value.v = MarkerKeys
    /\ (Wrote /\ last_run.op = "bulk_export")
          => /\ state_file.kind = "json"
             /\ MarkerKeys \ {"exportDir"} \subseteq DOMAIN state_file.value.v
             /\ HasSchema(last_run.before) => HasSchema(state_file)

\* the endpoint over an absent marker writes no exportDir, and over a
\* legacy marker it leaves the session ids at the top level
C16_ApiWritesNoExportDir ==
    (Wrote /\ last_run.op = "bulk_export")
        => /\ last_run.before.kind # "json"
                 => ~Has(state_file.value.v, "exportDir")
           /\ IsLegacy(last_run.before)
                 => DOMAIN last_run.before.value.v
                       \subseteq DOMAIN state_file.value.v

\* the run was ended by the marker, not by a session: _load_state raised
EndedByMarker ==
    /\ last_run.op = "cmd_export"
    /\ last_run.since = "last"
    /\ last_run.before.kind = "malformed"
    /\ last_run.raised = "JSONDecodeError"

\* C17: in every batch operation (CLI export, CLI session listing and
\* aggregate statistics, bulk-export endpoint, project session listing,
\* search) a failure while parsing one session, computing its statistics or
\* rendering it never ends the batch.
C17_SessionFailureNeverEndsBatch ==
    (last_run.op # "none" /\ last_run.raised # "") => EndedByMarker

\* what the batch operations do keep: only the CLI export is ended by a
\* session, and only by the statistics of a session it was about to export
C17_OnlyCliExportEndedByStats ==
    (last_run.op # "none" /\ last_run.raised # "" /\ ~EndedByMarker)
        => /\ last_run.op = "cmd_export"
           /\ last_run.raised = "AttributeError"
           /\ \E i \in 1..Len(session_files) :
                 /\ InfoOf(i).lines = StatsRaisingFile
                 /\ InfoOf(i).id \notin Exported

\* a session whose parse raises ends no batch: the session after it is
\* still exported, counted or listed
C17_ParseFailureSkipsOneSession ==
    (/\ last_run.op \notin {"none", "search"}
     /\ last_run.since # "last"
     /\ InfoOf(1).lines = ParseRaisingFile
     /\ InfoOf(2).lines = GoodFile)
        => /\ last_run.raised = ""
           /\ "s2" \in Exported

\* the CLI export over a first session whose statistics raise exports
\* nothing, the good second session included
C17_CliExportEndedByStats ==
    (/\ last_run.op = "cmd_export"
     /\ last_run.since = "all"
     /\ InfoOf(1).lines = StatsRaisingFile
     /\ InfoOf(2).lines = GoodFile)
        => /\ last_run.raised = "AttributeError"
           /\ last_run.exported = <<>>
           /\ state_file = last_run.before

---------------------------------------------------------------------------
(* One parse pass, record by record: the counters of the accumulator *)

\* an assistant record with the given usage block
WithUsage(usage) == Assistant([message |-> JObj([usage |-> usage])])

\* assistant records that add to every counter: tokens of the six kinds, a
\* stop reason, an API error on a sidechain, calls of the tools whose input
\* is logged; records whose token counts are negative; a compaction, a user
\* record and a record of a type without a processor
CounterLines ==
    {Assistant([message |->
         JObj([usage |-> JObj([input_tokens |-> JInt(3),
                               output_tokens |-> JInt(2),
                               cache_read_input_tokens |-> JInt(7),
                               cache_creation_input_tokens |-> JInt(5),
                               cache_creation |->
                                   JObj([ephemeral_5m_input_tokens |-> JInt(4),
                                         ephemeral_1h_input_tokens |-> JInt(1)])]),
               stop_reason |-> JStr("end_turn"),
               content |-> JList(<<ToolUse(JStr("t1"), "Bash",
                                           JObj([command |-> JStr("ls")])),
                                   ToolUse(JStr("t2"), "Read",
                                           JObj([file_path |-> JStr("a.py")]))>>)])]),
     Assistant([isApiErrorMessage |-> JBool(TRUE), isSidechain |-> JBool(TRUE),
                message |->
         JObj([stop_reason |-> JStr("tool_use"),
               content |-> JList(<<ToolUse(JStr("t3"), "WebFetch",
                                           JObj([url |-> JStr("http://x")])),
                                   ToolUse(JStr("t4"), "Edit",
                                           JObj([file_path |-> JStr("a.py")])),
                                   ToolUse(JStr("t5"), "Write",
                                           JObj([file_path |-> JStr("b.py")]))>>)])]),
     WithUsage(JObj([input_tokens |-> JInt(-5)])),
     WithUsage(JObj([output_tokens |-> JInt(1),
                     cache_creation |->
                         JObj([ephemeral_5m_input_tokens |-> JInt(-1)])])),
     WithUsage(JObj([input_tokens |-> JBool(TRUE), output_tokens |-> None])),
     System([subtype |-> JStr("compact_boundary"),
             compactMetadata |-> JObj([trigger |-> JStr("auto")])]),
     User([message |-> JObj([content |-> JStr("go on")])]),
     Json(JObj([type |-> JStr("summary")]))}

MaxCounterLines == 3

ReadCounterLine == ReadLine(CounterLines, MaxCounterLines)

CounterNext == ReadCounterLine \/ EndOfFile \/ ComputeStats

SpecCounters == ParseInit /\ [][CounterNext]_vars

TokenTotals ==
    {"total_input_tokens", "total_output_tokens", "total_cache_read_tokens",
     "total_cache_creation_tokens", "total_ephemeral_5m_tokens",
     "total_ephemeral_1h_tokens"}

EventCounters ==
    {"total_tool_calls", "compactions", "api_errors", "sidechain_messages"}

Histograms == {"tool_call_counts", "stop_reasons", "entry_counts"}

Logs == {"bash_commands", "web_fetches", "compact_boundaries"}

ActivitySets == {"files_read", "files_written", "files_created"}

\* a turn of the loop of parse_session has processed one more record
RecordProcessed ==
    pc = "reading" /\ pc' = "reading" /\ Len(file') = Len(file) + 1

\* no counter of the given fields is smaller in md2 than in md1
TotalsNonDecreasing(fields, md1, md2) == \A k \in fields : md2[k] >= md1[k]

\* no histogram entry, list or set is smaller in md2 than in md1
SizesNonDecreasing(md1, md2) ==
    /\ \A h \in Histograms :
          \A k \in DOMAIN md1[h] : k \in DOMAIN md2[h] /\ md2[h][k] >= md1[h][k]
    /\ \A l \in Logs : Len(md2[l]) >= Len(md1[l])
    /\ \A s \in ActivitySets : Cardinality(md2[s]) >= Cardinality(md1[s])

\* C21: during one parse pass every counter of the accumulator and the
\* length of every list or set is non-decreasing from one processed record
\* to the next, for every record content.
C21_CountersNonDecreasing ==
    [][RecordProcessed =>
          /\ TotalsNonDecreasing(TokenTotals \cup EventCounters,
                                 session.metadata, session'.metadata)
          /\ SizesNonDecreasing(session.metadata, session'.metadata)
          /\ Len(session'.messages) >= Len(session.messages)]_vars

\* a token count of the usage block of the record, or of its
\* cache_creation block, is a negative number
NegativeIn(d) == \E k \in DOMAIN d : d[k].t = "int" /\ d[k].v < 0

HasNegativeTokens(line) ==
    /\ IsRecordLine(line)
    /\ IsDict(Get(line.value.v, "message", None))
    /\ IsDict(UsageOf(line))
    /\ \/ NegativeIn(UsageOf(line).v)
       \/ /\ IsDict(Get(UsageOf(line).v, "cache_creation", None))
          /\ NegativeIn(UsageOf(line).v["cache_creation"].v)

\* what the accumulator does keep: the token totals are non-decreasing over
\* every record without a negative token count, and nothing but a token
\* total ever decreases
C21_NonDecreasingUnlessNegativeTokens ==
    [][RecordProcessed =>
          /\ ~HasNegativeTokens(file'[Len(file')])
                => TotalsNonDecreasing(TokenTotals, session.metadata,
                                       session'.metadata)
          /\ TotalsNonDecreasing(EventCounters, session.metadata,
                                 session'.metadata)
          /\ SizesNonDecreasing(session.metadata, session'.metadata)
          /\ Len(session'.messages) >= Len(session.messages)]_vars

\* a record with a negative token count takes the total below its value
\* after the record before
C21_TotalDecreased ==
    /\ pc = "reading"
    /\ Len(file) = 2
    /\ file[2] = WithUsage(JObj([input_tokens |-> JInt(-5)]))
    /\ session.metadata.total_input_tokens = -2

---------------------------------------------------------------------------
(* One parse pass, record by record: the list of messages *)

\* one record of each of the four processed types, each with its uuid, a
\* second user record, a user record that ends the parse, records of two
\* other types, a record without a type, and two lines that decode to no
\* record
MessageLines ==
    {User([uuid |-> JStr("u1"), message |-> JObj([content |-> JStr("hi")])]),
     User([uuid |-> JStr("u3"), message |-> None]),
     User([uuid |-> JStr("u2"),
           toolUseResult |-> JObj([stdout |-> JStr("ok")])]),
     Assistant([uuid |-> JStr("a1"),
                message |-> JObj([content |-> JStr("hello")])]),
     System([uuid |-> JStr("s1"), subtype |-> JStr("compact_boundary")]),
     Progress([uuid |-> JStr("p1"), data |-> JObj([type |-> JStr("hook")])]),
     Json(JObj([type |-> JStr("summary"), uuid |-> JStr("x1")])),
     Json(JObj([type |-> JStr("file-history-snapshot"),
                snapshot |-> JObj(EmptyDict)])),
     Json(JObj([uuid |-> JStr("x2")])),
     Blank,
     Malformed}

MaxMessageLines == 3

ReadMessageLine == ReadLine(MessageLines, MaxMessageLines)

MessageNext == ReadMessageLine \/ EndOfFile \/ ComputeStats

SpecMessages == ParseInit /\ [][MessageNext]_vars

MessageTypes == {"user", "assistant", "system", "progress"}

\* the line decodes to a record of one of the four types
IsMessageRecord(line) ==
    /\ IsRecordLine(line)
    /\ \E type \in MessageTypes : Get(line.value.v, "type", None) = JStr(type)

\* the records of the four types among the lines, in file order
RECURSIVE MessageRecords(_)
MessageRecords(lines) ==
    IF lines = <<>> THEN <<>>
    ELSE IF IsMessageRecord(Head(lines))
    THEN <<Head(lines).value.v>> \o MessageRecords(Tail(lines))
    ELSE MessageRecords(Tail(lines))

\* the message is the one of the record: its role is the type of the
\* record and its uuid the one of the record
MessageOf(msg, entry) ==
    /\ JStr(msg.role) = entry["type"]
    /\ msg.uuid = Get(entry, "uuid", None)

CountOfType(md, type) ==
    IF JStr(type) \in DOMAIN md.entry_counts THEN md.entry_counts[JStr(type)]
    ELSE 0

\* messages holds one message per record of the four types read so far,
\* in file order, as many as entry_counts counts for the four types
OneMessagePerRecord ==
    pc # "parse_raised"
        => /\ Len(session.messages) = Len(MessageRecords(file))
           /\ \A i \in 1..Len(session.messages) :
                 MessageOf(session.messages[i], MessageRecords(file)[i])
           /\ Len(session.messages)
                 = CountOfType(session.metadata, "user")
                   + CountOfType(session.metadata, "assistant")
                   + CountOfType(session.metadata, "system")
                   + CountOfType(session.metadata, "progress")

\* a step of the run leaves every message of the list as it is and in its
\* place: the list only grows at its end
OnlyAppended ==
    /\ Len(session'.messages) >= Len(session.messages)
    /\ SubSeq(session'.messages, 1, Len(session.messages)) = session.messages

\* C22: after parse_session has processed any prefix of the file, messages
\* holds exactly one message per decoded record of type user, assistant,
\* system or progress seen so far, in file order, its length being the sum
\* of the entry_counts of the four types; a further record only appends at
\* the end and changes no message already in the list.
C22_OneMessagePerRecordAppended ==
    []OneMessagePerRecord /\ [][OnlyAppended]_vars

\* three lines have been read, a progress record, a record of another type
\* and a user record: two messages, in that order
C22_Witness ==
    /\ pc = "reading"
    /\ Len(file) = 3
    /\ IsMessageRecord(file[1]) /\ ~IsMessageRecord(file[2])
    /\ IsMessageRecord(file[3])
    /\ Len(session.messages) = 2
    /\ session.messages[1].role = "progress"
    /\ session.messages[2].role = "user"

---------------------------------------------------------------------------
(* One parse pass, record by record: the session-scoped fields *)

\* user records that carry some of the four fields, with a value, an empty
\* string or null; an assistant, a system and a summary record that carry
\* them too, as the records of every type do in the logs of Claude Code
FieldLines ==
    {User([version |-> JStr("1.0"), cwd |-> JStr("/a")]),
     User([version |-> JStr("2.0"), cwd |-> JStr("/b"),
           gitBranch |-> JStr("main"), permissionMode |-> JStr("default")]),
     User([cwd |-> None, gitBranch |-> JStr("dev")]),
     User([cwd |-> JStr(""), permissionMode |-> JStr("plan")]),
     User(<<>>),
     Assistant([version |-> JStr("3.0"), cwd |-> JStr("/c"),
                gitBranch |-> JStr("fix")]),
     System([cwd |-> JStr("/d"), permissionMode |-> JStr("auto")]),
     Json(JObj([type |-> JStr("summary"), version |-> JStr("0.9")]))}

MaxFieldLines == 3

ReadFieldLine == ReadLine(FieldLines, MaxFieldLines)

FieldNext == ReadFieldLine \/ EndOfFile \/ ComputeStats

SpecFields == ParseInit /\ [][FieldNext]_vars

\* the session-scoped fields of the metadata and the key of a record each
\* is captured from
SessionFields ==
    [version |-> "version", cwd |-> "cwd", git_branch |-> "gitBranch",
     permission_mode |-> "permissionMode"]

\* the record carries a value for the key that is not null
Supplies(line, key) ==
    IsRecordLine(line) /\ Get(line.value.v, key, None) # None

IsUserRecord(line) ==
    IsRecordLine(line) /\ Get(line.value.v, "type", None) = JStr("user")

\* the value of the key in the first of the lines that supplies it and is
\* of the given kind, null if there is none
RECURSIVE FirstSupplied(_, _, _)
FirstSupplied(lines, key, user_only) ==
    IF lines = <<>> THEN None
    ELSE IF Supplies(Head(lines), key)
            /\ (user_only => IsUserRecord(Head(lines)))
    THEN Head(lines).value.v[key]
    ELSE FirstSupplied(Tail(lines), key, user_only)

\* a field that holds a value that is not null holds it after the step
NeverOverwritten ==
    \A field \in DOMAIN SessionFields :
        session.metadata[field] # None
            => session'.metadata[field] = session.metadata[field]

HeldFromFirst(user_only) ==
    pc # "parse_raised"
        => \A field \in DOMAIN SessionFields :
              session.metadata[field]
                  = FirstSupplied(file, SessionFields[field], user_only)

\* C23 as stated: once version, cwd, git_branch or permission_mode holds a
\* non-null value it is never changed by a later record, and the value it
\* holds is the one carried by the first record in file order that
\* supplies the field.
C23_HeldFromFirstRecord ==
    []HeldFromFirst(FALSE) /\ [][NeverOverwritten]_vars

\* C23 as amended: once one of the four fields holds a non-null value it
\* is never changed by a later record, and the value it holds is the one
\* carried by the first user record in file order that supplies the field;
\* the records of the other types are not looked at.
C23_HeldFromFirstUserRecord ==
    []HeldFromFirst(TRUE) /\ [][NeverOverwritten]_vars

\* an assistant record that supplies three fields, then two user records
\* that supply other values: the fields hold the values of the first user
\* record that supplies each, and the session is finished
C23_Witness ==
    /\ pc = "parsed"
    /\ Len(file) = 3
    /\ ~IsUserRecord(file[1]) /\ Supplies(file[1], "cwd")
    /\ IsUserRecord(file[2]) /\ ~Supplies(file[2], "cwd")
    /\ Supplies(file[2], "gitBranch")
    /\ IsUserRecord(file[3]) /\ Supplies(file[3], "cwd")
    /\ Supplies(file[3], "gitBranch")
    /\ session.metadata.cwd = file[3].value.v["cwd"]
    /\ session.metadata.git_branch = file[2].value.v["gitBranch"]
    /\ session.metadata.git_branch # file[3].value.v["gitBranch"]

---------------------------------------------------------------------------
(* One parse pass, record by record: records without a processor and
   progress records *)

\* records of types without a processor, with and without a timestamp and
\* a sidechain flag, a snapshot with the timestamp inside, a record without
\* a type and one whose type cannot be a key; progress records; and an
\* assistant and a user record that fill the accumulator
PassthroughLines ==
    {Json(JObj([type |-> JStr("summary")])),
     Json(JObj([type |-> JStr("summary"),
                timestamp |-> JStr("2026-01-01T10:00:00Z"),
                isSidechain |-> JBool(TRUE),
                message |-> JObj([usage |-> JObj([input_tokens |-> JInt(9)])])])),
     Json(JObj([type |-> JStr("file-history-snapshot"),
                snapshot |-> JObj([timestamp |-> JStr("2026-01-01T09:00:00Z")])])),
     Json(JObj([timestamp |-> JStr("2026-01-01T12:00:00Z")])),
     Json(JObj([type |-> JList(<<JStr("user")>>)])),
     Progress([data |-> JObj([type |-> JStr("hook")])]),
     Progress([timestamp |-> JStr("2026-01-01T11:00:00Z"),
               isSidechain |-> JBool(TRUE), toolUseID |-> JStr("t1"),
               data |-> JObj([type |-> JStr("bash")])]),
     Assistant([timestamp |-> JStr("2026-01-01T10:30:00Z"),
                message |-> JObj([usage |-> JObj([input_tokens |-> JInt(3)]),
                                  content |-> JList(<<ToolUse(JStr("t1"), "Bash",
                                      JObj([command |-> JStr("ls")]))>>)])]),
     User([cwd |-> JStr("/w"), message |-> JObj([content |-> JStr("hi")])])}

MaxPassthroughLines == 3

ReadPassthroughLine == ReadLine(PassthroughLines, MaxPassthroughLines)

PassthroughNext == ReadPassthroughLine \/ EndOfFile \/ ComputeStats

SpecPassthrough == ParseInit /\ [][PassthroughNext]_vars

TypeOf(line) == Get(line.value.v, "type", None)

IsProgressRecord(line) == IsRecordLine(line) /\ TypeOf(line) = JStr("progress")

\* a record of a type that has no processor
IsUnrecognized(line) ==
    /\ IsRecordLine(line)
    /\ \A type \in MessageTypes : TypeOf(line) # JStr(type)

\* the step has processed the line, an unrecognized or a progress record
Passed(line) ==
    /\ RecordProcessed
    /\ line = file'[Len(file')]
    /\ IsUnrecognized(line) \/ IsProgressRecord(line)

\* what the record does to the list of messages: nothing, or one message
\* of role progress at the end
MessagesPassed(line) ==
    IF IsUnrecognized(line) THEN session'.messages = session.messages
    ELSE /\ Len(session'.messages) = Len(session.messages) + 1
         /\ OnlyAppended
         /\ session'.messages[Len(session'.messages)].role = "progress"

\* entry_counts changes in the entry of the type of the record alone
OwnEntryCounted(line) ==
    \A k \in DOMAIN session.metadata.entry_counts \ {TypeOf(line)} :
        /\ k \in DOMAIN session'.metadata.entry_counts
        /\ session'.metadata.entry_counts[k] = session.metadata.entry_counts[k]

\* the metadata outside of the given fields is left as it is
Unchanged(fields) ==
    \A k \in DOMAIN InitMetadata \ fields :
        session'.metadata[k] = session.metadata[k]

TimestampOf(line) ==
    IF Truthy(Get(line.value.v, "timestamp", None))
    THEN line.value.v["timestamp"]
    ELSE IF TypeOf(line) = JStr("file-history-snapshot")
            /\ IsDict(Get(line.value.v, "snapshot", None))
    THEN Get(line.value.v["snapshot"].v, "timestamp", None)
    ELSE None

\* what parse_session tracks for a record of any type: the first and last
\* timestamp and the count of sidechain records
TrackedForEveryRecord(line) ==
    /\ session'.metadata.sidechain_messages
          = session.metadata.sidechain_messages
            + (IF Truthy(Get(line.value.v, "isSidechain", None)) THEN 1 ELSE 0)
    /\ session'.metadata.last_timestamp
          = (IF Truthy(TimestampOf(line)) THEN TimestampOf(line)
             ELSE session.metadata.last_timestamp)
    /\ session'.metadata.first_timestamp
          = (IF Truthy(TimestampOf(line))
                /\ session.metadata.first_timestamp = None
             THEN TimestampOf(line)
             ELSE session.metadata.first_timestamp)

---------------------------------------------------------------------------
(* One parse pass, record by record: assistant records with the sentinel
   model name *)

\* the sentinel, the empty name, no name, and two names of models
SentinelModels ==
    {JStr("<synthetic>"), JStr(""), Absent, JStr("claude-sonnet-4"),
     JStr("gpt-4")}

\* usage blocks with no token, with one kind of token and with all of them
SentinelUsages ==
    {Absent,
     JObj([input_tokens |-> JInt(0)]),
     JObj([input_tokens |-> JInt(7)]),
     JObj([output_tokens |-> JInt(9), service_tier |-> JStr("standard")]),
     JObj([input_tokens |-> JInt(3), output_tokens |-> JInt(2),
           cache_read_input_tokens |-> JInt(7),
           cache_creation_input_tokens |-> JInt(5),
           cache_creation |-> JObj([ephemeral_5m_input_tokens |-> JInt(4),
                                    ephemeral_1h_input_tokens |-> JInt(1)])])}

SentinelLines == {UsageRecord(m, u) : m \in SentinelModels, u \in SentinelUsages}

MaxSentinelLines == 2

ReadSentinelLine == ReadLine(SentinelLines, MaxSentinelLines)

SentinelNext == ReadSentinelLine \/ EndOfFile \/ ComputeStats

SpecSentinel == ParseInit /\ [][SentinelNext]_vars

\* the model name of an assistant record, the empty string when it has none
ModelOf(line) == Get(line.value.v["message"].v, "model", JStr(""))

IsSentinel(line) == ModelOf(line) \in {JStr("<synthetic>"), JStr("")}

\* the step has processed an assistant record with the sentinel for a model
\* name, or with an empty one
SentinelProcessed ==
    /\ RecordProcessed
    /\ IsSentinel(file'[Len(file')])

\* C25: an assistant record whose model name is the sentinel <synthetic>,
\* or is empty, is skipped by token accounting: it leaves all token totals
\* unchanged whatever its usage fields contain, and its model name is not
\* added to models_used.
C25_SentinelSkippedByTokenAccounting ==
    [][SentinelProcessed
          => /\ \A k \in TokenTotals : session'.metadata[k] = session.metadata[k]
             /\ session'.metadata.models_used = session.metadata.models_used]_vars

\* what the record does keep: its name is not added to models_used, and
\* its tokens are added to the totals as those of any other record are
C25_SentinelSkippedByModelsUsed ==
    [][SentinelProcessed
          => /\ session'.metadata.models_used = session.metadata.models_used
             /\ \E named \in SentinelLines :
                   /\ ~IsSentinel(named)
                   /\ UsageOf(named) = UsageOf(file'[Len(file')])
                   /\ \E r \in {_process_assistant(named.value.v,
                                    session.messages, session.metadata)} :
                         \A k \in TokenTotals :
                             session'.metadata[k] = r.metadata[k]]_vars

\* a record of the sentinel with seven input tokens after a record of a
\* model with three: the total is ten, the models are the one
C25_SentinelTokensCounted ==
    /\ pc = "reading"
    /\ file = <<UsageRecord(JStr("gpt-4"), JObj([input_tokens |-> JInt(3),
                    output_tokens |-> JInt(2),
                    cache_read_input_tokens |-> JInt(7),
                    cache_creation_input_tokens |-> JInt(5),
                    cache_creation |-> JObj([ephemeral_5m_input_tokens |-> JInt(4),
                                             ephemeral_1h_input_tokens |-> JInt(1)])])),
                UsageRecord(JStr("<synthetic>"), JObj([input_tokens |-> JInt(7)]))>>
    /\ session.metadata.total_input_tokens = 10
    /\ session.metadata.models_used = {JStr("gpt-4")}

---------------------------------------------------------------------------
(* files_touched as a partition of the touched files *)

TouchedRead == Range(stats.files_touched.read.v)
TouchedWritten == Range(stats.files_touched.written.v)
TouchedCreated == Range(stats.files_touched.created.v)

\* C30: the files_touched result partitions the touched files: its read,
\* written and created lists are pairwise disjoint and total_unique equals
\* the sum of their three lengths, for every session, including one in
\* which the same file is first created with Write and later changed with
\* Edit.
C30_FilesTouchedPartition ==
    pc = "stats" =>
        /\ TouchedRead \cap TouchedWritten = {}
        /\ TouchedRead \cap TouchedCreated = {}
        /\ TouchedWritten \cap TouchedCreated = {}
        /\ stats.files_touched.total_unique
               = Len(stats.files_touched.read.v)
                 + Len(stats.files_touched.written.v)
                 + Len(stats.files_touched.created.v)

\* what files_touched does keep: the three lists have no repeated file and
\* cover the touched files, the read list is disjoint from the other two,
\* and total_unique counts each touched file once, so that it is the sum of
\* the lengths less the files that are both written and created
C30_FilesTouchedCover ==
    pc = "stats" =>
        /\ TouchedRead \cup TouchedWritten \cup TouchedCreated
               = ReadSet \cup WrittenSet \cup CreatedSet
        /\ Len(stats.files_touched.read.v) = Cardinality(TouchedRead)
        /\ Len(stats.files_touched.written.v) = Cardinality(TouchedWritten)
        /\ Len(stats.files_touched.created.v) = Cardinality(TouchedCreated)
        /\ stats.files_touched.total_unique
               = Cardinality(ReadSet \cup WrittenSet \cup CreatedSet)
        /\ stats.files_touched.total_unique
               = Len(stats.files_touched.read.v)
                 + Len(stats.files_touched.written.v)
                 + Len(stats.files_touched.created.v)
                 - Cardinality(TouchedWritten \cap TouchedCreated)

\* a.py is created with Write and then changed with Edit: it is reported
\* as written and as created, and counted once
C30_CreatedThenEdited ==
    /\ pc = "stats"
    /\ file = <<FileCall("Write", "a.py"), FileCall("Edit", "a.py")>>
    /\ stats.files_touched.written = JList(<<JStr("a.py")>>)
    /\ stats.files_touched.created = JList(<<JStr("a.py")>>)
    /\ stats.files_touched.total_unique = 1

---------------------------------------------------------------------------
(* One parse pass: system records of compactions *)

Boundary(compact_meta) ==
    System(Field("subtype", JStr("compact_boundary"))
           @@ Field("compactMetadata", compact_meta))

\* compact_boundary records whose compactMetadata is an object, with and
\* without its two fields, or is absent, null, a string or a list; system
\* records of another subtype and of none; a user and an assistant record
CompactionLines ==
    {Boundary(JObj([trigger |-> JStr("auto"), preTokens |-> JInt(9)])),
     Boundary(JObj(EmptyDict)),
     Boundary(Absent),
     Boundary(None),
     Boundary(JStr("auto")),
     Boundary(JList(<<JStr("auto")>>)),
     System([subtype |-> JStr("turn_duration"),
             compactMetadata |-> JObj([trigger |-> JStr("manual")])]),
     System([content |-> JStr("note")]),
     User([message |-> JObj([content |-> JStr("go on")])]),
     WithUsage(JObj([input_tokens |-> JInt(1)]))}

MaxCompactionLines == 3

ReadCompactionLine == ReadLine(CompactionLines, MaxCompactionLines)

CompactionNext == ReadCompactionLine \/ EndOfFile \/ ComputeStats

SpecCompactions == ParseInit /\ [][CompactionNext]_vars

IsBoundary(line) ==
    /\ IsRecordLine(line)
    /\ TypeOf(line) = JStr("system")
    /\ Get(line.value.v, "subtype", None) = JStr("compact_boundary")

\* the boundary carries a compactMetadata that is an object
HasDetail(line) == IsDict(Get(line.value.v, "compactMetadata", None))

\* the compact_boundary records among the lines processed so far
BoundariesIn(lines) == {i \in 1..Len(lines) : IsBoundary(lines[i])}

\* C26: after any sequence of records, compactions equals the number of
\* system records with subtype compact_boundary processed so far and equals
\* the length of compact_boundaries: every such record increments the count
\* and appends one boundary detail record, also when its compactMetadata is
\* absent or not an object.
C26_CompactionsCountBoundaries ==
    pc # "parse_raised" =>
        /\ session.metadata.compactions = Cardinality(BoundariesIn(file))
        /\ Len(session.metadata.compact_boundaries)
               = session.metadata.compactions

\* what the processor does keep: the count is that of the boundary records,
\* and the list holds a detail record for each of those whose
\* compactMetadata is an object, in file order, and for no other
C26_DetailOnlyOfObjectMetadata ==
    pc # "parse_raised" =>
        /\ session.metadata.compactions = Cardinality(BoundariesIn(file))
        /\ Len(session.metadata.compact_boundaries)
               = Cardinality({i \in BoundariesIn(file) : HasDetail(file[i])})
        /\ Len(session.metadata.compact_boundaries)
               <= session.metadata.compactions

\* three boundary records, without compactMetadata, with a string and with
\* an object for it: three compactions, one detail record
C26_BoundaryWithoutDetail ==
    /\ pc = "parsed"
    /\ file = <<Boundary(Absent), Boundary(JStr("auto")),
                Boundary(JObj([trigger |-> JStr("auto"),
                               preTokens |-> JInt(9)]))>>
    /\ session.metadata.compactions = 3
    /\ session.metadata.compact_boundaries
          = <<[timestamp |-> None, trigger |-> JStr("auto"),
               pre_tokens |-> JInt(9)]>>

---------------------------------------------------------------------------
(* The access paths to a session under exclusion rules: api/sessions.py,
   api/export_api.py, api/projects.py, api/search.py and cmd_export.  The
   session files carry no cwd, so that the display name of the project is
   the name of its directory. *)

ProjectName == "-w-app"

\* utils/exclusion_rules.py: the parts that are truthy, joined by newlines
build_searchable_text(project_name, session_title, model_names, content_snippet) ==
    JoinStrings(SelectSeq(<<project_name, session_title>> \o model_names
                              \o <<content_snippet>>,
                          Truthy),
                "\n")

\* if msg.get("text"), in the endpoints of a session, a project and search
HasText(msg) == Truthy(Get(msg, "text", None))

\* scripts/export.py and bulk_export: text = msg.get("text") or "", kept
\* if isinstance(text, str) and text.strip()
HasStrippedText(msg) ==
    /\ IsStr(Or(Get(msg, "text", None), JStr("")))
    /\ Strip(Or(Get(msg, "text", None), JStr("")).v) # ""

TextsOf(msgs) == [i \in 1..Len(msgs) |-> msgs[i].text]

\* "\n\n".join(text_parts)
TextParts(messages) ==
    JStr(JoinStrings(TextsOf(SelectSeq(messages, HasText)), "\n\n"))

_session_text_for_exclusion(messages) ==
    JStr(JoinStrings(TextsOf(SelectSeq(messages, HasStrippedText)), "\n\n"))

\* the `if rules:` block of every path that has one, for a session that
\* has been parsed, with the content snippet of the path
ExcludedWith(rs, sess, content_snippet) ==
    /\ rs # <<>>
    /\ is_excluded_by_rules(rs,
           build_searchable_text(JStr(ProjectName), sess.title,
                                 sess.metadata.models_used.v,
                                 content_snippet))

ApiExcludes(rs, sess) == ExcludedWith(rs, sess, TextParts(sess.messages))

CliExcludes(rs, sess) ==
    ExcludedWith(rs, sess, _session_text_for_exclusion(sess.messages))

\* what a request for one session leaves: the status of the response and
\* the ids of the sessions whose content or statistics it holds
Served(op, f, status, ids) ==
    [state_file |-> f,
     last_run |-> [op |-> op, since |-> "", before |-> f, exported |-> ids,
                   raised |-> "", status |-> status]]

\* api/sessions.py: the parse and the rules are inside the try; sess is
\* what parse_session(filepath) gives
get_session(f, rs, info, sess) ==
    IF IsRaise(sess) THEN Served("get_session", f, 500, <<>>)
    ELSE IF ApiExcludes(rs, sess) THEN Served("get_session", f, 404, <<>>)
    ELSE Served("get_session", f, 200, <<info.id>>)

\* api/sessions.py: parse_session and compute_stats, and no rules; stats_
\* is what the two calls give
get_session_stats(f, rs, info, stats_) ==
    IF IsRaise(stats_) THEN Served("get_session_stats", f, 500, <<>>)
    ELSE Served("get_session_stats", f, 200, <<info.id>>)

\* api/export_api.py: nothing is inside a try
export_session(f, rs, info, sess, stats_) ==
    IF IsRaise(sess) THEN Served("export_session", f, 500, <<>>)
    ELSE IF ApiExcludes(rs, sess) THEN Served("export_session", f, 404, <<>>)
    ELSE IF IsRaise(stats_) THEN Served("export_session", f, 500, <<>>)
    ELSE Served("export_session", f, 200, <<info.id>>)

\* cmd_export with --session: the marker is loaded, the session is found,
\* parsed and exported, and the run returns before the loop and its rules
CmdExportSingle(f, since, info, stats_, state) ==
    IF IsRaise(state)
    THEN RunOf("cmd_export --session", since, f, <<>>, state.exc, f)
    ELSE IF IsRaise(stats_)
    THEN RunOf("cmd_export --session", since, f, <<>>, stats_.exc, f)
    ELSE RunOf("cmd_export --session", since, f, <<info.id>>, "", f)

cmd_export_session(f, rs, info, since, stats_) ==
    CmdExportSingle(f, since, info, stats_,
                    IF since = "last" THEN _load_state(f) ELSE JObj(EmptyDict))

\* the body of the loop of cmd_export with its `if rules:` block; fact is
\* what parse_session and compute_stats give for the session
CliSessionWithRules(acc, info, since, rs, fact) ==
    IF since = "last"
       /\ CliSkips(info.modified, PrevMtime(acc.last_export, info.id))
    THEN acc
    ELSE IF IsRaise(fact.session) THEN acc
    ELSE IF fact.session.title = JStr(UntitledSession) THEN acc
    ELSE IF CliExcludes(rs, fact.session) THEN acc
    ELSE CliExported(acc, info, fact.stats)

RECURSIVE CliLoopWithRules(_, _, _, _, _)
CliLoopWithRules(sessions, acc, since, rs, facts) ==
    IF sessions = <<>> \/ acc.raised # "" THEN acc
    ELSE CliLoopWithRules(Tail(sessions),
                          CliSessionWithRules(acc, Head(sessions), since, rs,
                                              facts[Head(sessions).lines]),
                          since, rs, facts)

CliRunWithRules(f, sessions, since, rs, facts, state) ==
    IF IsRaise(state) THEN RunOf("cmd_export", since, f, <<>>, state.exc, f)
    ELSE CliEnd(f, since,
                CliLoopWithRules(sessions,
                                 [last_export |-> Get(state.v, "sessions",
                                                      JObj(EmptyDict)).v,
                                  manifest |-> <<>>, raised |-> ""],
                                 since, rs, facts))

cmd_export_with_rules(f, sessions, since, rs, facts) ==
    CliRunWithRules(f, sessions, since, rs, facts,
                    IF since = "last" THEN _load_state(f) ELSE JObj(EmptyDict))

\* the body of the loop of bulk_export with its `if rules:` block
ApiSessionWithRules(acc, info, since, last_export_sessions, rs, fact) ==
    IF since = "last"
       /\ ApiSkips(info.modified, PrevMtime(last_export_sessions, info.id))
    THEN acc
    ELSE IF IsRaise(fact.session) THEN acc
    ELSE IF fact.session.title = JStr(UntitledSession) THEN acc
    ELSE IF CliExcludes(rs, fact.session) THEN acc
    ELSE ApiExported(acc, info, fact.stats)

RECURSIVE ApiLoopWithRules(_, _, _, _, _, _)
ApiLoopWithRules(sessions, acc, since, last_export_sessions, rs, facts) ==
    IF sessions = <<>> THEN acc
    ELSE ApiLoopWithRules(Tail(sessions),
                          ApiSessionWithRules(acc, Head(sessions), since,
                                              last_export_sessions, rs,
                                              facts[Head(sessions).lines]),
                          since, last_export_sessions, rs, facts)

bulk_export_with_rules(f, sessions, since, rs, facts) ==
    ApiEnd(f, since,
           ApiLoopWithRules(sessions,
                            [manifest |-> <<>>, new_sessions_map |-> EmptyDict],
                            since,
                            IF since = "last"
                            THEN Get(_read_state(f).v, "sessions",
                                     JObj(EmptyDict)).v
                            ELSE EmptyDict,
                            rs, facts))

\* get_project_sessions with its `if rules:` block
ProjectParsedWithRules(result, info, rs, sess) ==
    IF IsRaise(sess) THEN Append(result, info.id)
    ELSE IF sess.title = JStr(UntitledSession) THEN result
    ELSE IF ApiExcludes(rs, sess) THEN result
    ELSE Append(result, info.id)

RECURSIVE ProjectLoopWithRules(_, _, _, _)
ProjectLoopWithRules(sessions, result, rs, parsed) ==
    IF sessions = <<>> THEN result
    ELSE ProjectLoopWithRules(Tail(sessions),
                              ProjectParsedWithRules(result, Head(sessions), rs,
                                                     parsed[Head(sessions).lines]),
                              rs, parsed)

get_project_sessions_with_rules(f, sessions, rs, parsed) ==
    RunOf("get_project_sessions", "", f,
          ProjectLoopWithRules(sessions, <<>>, rs, parsed), "", f)

\* search with its `if rules:` block
SearchParsedWithRules(acc, info, rs, sess, query) ==
    IF IsRaise(sess) THEN acc
    ELSE IF ApiExcludes(rs, sess) THEN acc
    ELSE SearchMessages(sess.messages, acc, info, query)

RECURSIVE SearchLoopWithRules(_, _, _, _, _)
SearchLoopWithRules(sessions, acc, rs, parsed, query) ==
    IF sessions = <<>> \/ acc.raised # "" \/ Len(acc.results) >= MaxResults
    THEN acc
    ELSE SearchLoopWithRules(Tail(sessions),
                             SearchParsedWithRules(acc, Head(sessions), rs,
                                                   parsed[Head(sessions).lines],
                                                   query),
                             rs, parsed, query)

search_with_rules(f, sessions, rs, parsed, query) ==
    SearchEnd(f, SearchLoopWithRules(sessions,
                                     [results |-> <<>>, raised |-> ""],
                                     rs, parsed, query))

---------------------------------------------------------------------------
(* Requests and runs over a project of two session files, with rules *)

\* a session that a rule on the word key excludes, by its title and text
KeyFile ==
    <<User([message |-> JObj([content |-> JStr("rotate the Key")])]),
      UsageRecord(JStr("gpt-4"), JObj([input_tokens |-> JInt(1)]))>>

AccessFiles == {GoodFile, KeyFile, ParseRaisingFile, UntitledFile}

\* parse_session and compute_stats for each session file, computed once
AccessParsed == [lines \in AccessFiles |-> parse_session(lines)]

SessionWithStats(sess) == [session |-> sess, stats |-> StatsOfParsed(sess)]

AccessFacts == [lines \in AccessFiles |-> SessionWithStats(parse_session(lines))]

\* no rules; a rule on a word of a title; a rule on the name of the
\* project; two rules, of two words and of a phrase
AccessRules ==
    {<<>>,
     <<<<Term("word", "key")>>>>,
     <<<<Term("word", "APP")>>>>,
     <<<<Term("word", "bug"), OpAND, Term("word", "zz")>>,
       <<Term("phrase", "the bug")>>>>}

AccessQueries == {"bug", "key"}

AccessInit ==
    /\ RunsIdle
    /\ ClassifyIdle
    /\ ParseIdle
    /\ TokenIdle
    /\ QuickIdle
    /\ pc = 0
    /\ rules \in AccessRules
    /\ searchable_text = ""
    /\ excluded = FALSE
    /\ state_file \in {FileAbsent, _save_state(JObj([s1 |-> JInt(1)]), 1, OutDir)}
    /\ session_files \in
          {[i \in 1..Len(SessionIds) |->
               [id |-> SessionIds[i], modified |-> 1, lines |-> files[i]]] :
           files \in [1..Len(SessionIds) -> AccessFiles]}
    /\ last_run = [op |-> "none"]

MaxAccesses == 1

\* the request or run r has ended; pc counts them
Accessed(r) ==
    /\ pc < MaxAccesses
    /\ pc' = pc + 1
    /\ state_file' = r.state_file
    /\ last_run' = r.last_run
    /\ UNCHANGED <<session_files, rules, searchable_text, excluded,
                   classifyVars, parseVars, tokenVars, quickVars, runVars>>

GetSession ==
    \E i \in 1..Len(session_files), parsed \in {AccessParsed} :
        \E r \in {get_session(state_file, rules, session_files[i],
                              parsed[session_files[i].lines])} : Accessed(r)

GetSessionStats ==
    \E i \in 1..Len(session_files), facts \in {AccessFacts} :
        \E r \in {get_session_stats(state_file, rules, session_files[i],
                                    facts[session_files[i].lines].stats)} :
            Accessed(r)

ExportSession ==
    \E i \in 1..Len(session_files), facts \in {AccessFacts} :
        \E r \in {export_session(state_file, rules, session_files[i],
                                 facts[session_files[i].lines].session,
                                 facts[session_files[i].lines].stats)} :
            Accessed(r)

CmdExportSession ==
    \E i \in 1..Len(session_files), since \in {"all", "last"},
       facts \in {AccessFacts} :
        \E r \in {cmd_export_session(state_file, rules, session_files[i], since,
                                     facts[session_files[i].lines].stats)} :
            Accessed(r)

CmdExportWithRules ==
    \E since \in {"all", "last"}, facts \in {AccessFacts} :
        \E r \in {cmd_export_with_rules(state_file, session_files, since, rules,
                                        facts)} : Accessed(r)

BulkExportWithRules ==
    \E since \in {"all", "last"}, facts \in {AccessFacts} :
        \E r \in {bulk_export_with_rules(state_file, session_files, since, rules,
                                         facts)} : Accessed(r)

ProjectSessionsWithRules ==
    \E parsed \in {AccessParsed} :
        \E r \in {get_project_sessions_with_rules(state_file, session_files,
                                                  rules, parsed)} : Accessed(r)

SearchWithRules ==
    \E query \in AccessQueries, parsed \in {AccessParsed} :
        \E r \in {search_with_rules(state_file, session_files, rules, parsed,
                                    query)} : Accessed(r)

AccessNext ==
    \/ GetSession
    \/ GetSessionStats
    \/ ExportSession
    \/ CmdExportSession
    \/ CmdExportWithRules
    \/ BulkExportWithRules
    \/ ProjectSessionsWithRules
    \/ SearchWithRules

SpecAccess == AccessInit /\ [][AccessNext]_vars

\* the rules exclude the session: it parses, and its searchable text, with
\* either content snippet, matches a rule
Excludes(rs, sess) ==
    /\ ~IsRaise(sess)
    /\ ApiExcludes(rs, sess) \/ CliExcludes(rs, sess)

ExcludedIdsOf(rs, sessions, parsed) ==
    {sessions[i].id : i \in {j \in 1..Len(sessions) :
                                 Excludes(rs, parsed[sessions[j].lines])}}

ExcludedIds == ExcludedIdsOf(rules, session_files, AccessParsed)

\* C27: when exclusion rules are loaded, no session that the rules exclude
\* is observable through any access path: the session detail, session
\* stats, single-session export, bulk export, project session listing and
\* search endpoints, and the CLI export (batch and --session) return no
\* content or statistics derived from an excluded session.
C27_ExcludedNeverObservable ==
    (rules # <<>> /\ last_run.op # "none")
        => Range(last_run.exported) \cap ExcludedIds = {}

\* what the paths do keep: six of the eight give nothing of an excluded
\* session
C27_ExcludedObservableOnlyByStatsAndCliSession ==
    (/\ rules # <<>>
     /\ last_run.op \notin {"none", "get_session_stats", "cmd_export --session"})
        => Range(last_run.exported) \cap ExcludedIds = {}

\* under a rule on the word key the statistics of the session titled
\* "rotate the Key" are served
C27_StatsOfExcludedServed ==
    /\ rules = <<<<Term("word", "key")>>>>
    /\ session_files[1].lines = KeyFile
    /\ "s1" \in ExcludedIds
    /\ last_run.op = "get_session_stats"
    /\ last_run.status = 200
    /\ last_run.exported = <<"s1">>

\* the detail of the same session is refused with 404
C27_DetailOfExcludedRefused ==
    /\ rules = <<<<Term("word", "key")>>>>
    /\ session_files[1].lines = KeyFile
    /\ last_run.op = "get_session"
    /\ last_run.status = 404
    /\ last_run.exported = <<>>

\* the CLI with --session exports the excluded session
C27_CliSessionOfExcludedExported ==
    /\ rules = <<<<Term("word", "key")>>>>
    /\ session_files[1].lines = KeyFile
    /\ "s1" \in ExcludedIds
    /\ last_run.op = "cmd_export --session"
    /\ last_run.exported = <<"s1">>

\* and its batch export leaves it out and exports the other session
C27_CliBatchLeavesExcludedOut ==
    /\ rules = <<<<Term("word", "key")>>>>
    /\ session_files[1].lines = KeyFile
    /\ session_files[2].lines = GoodFile
    /\ last_run.op = "cmd_export"
    /\ last_run.exported = <<"s2">>

---------------------------------------------------------------------------
(* Sequences of export runs, of the CLI and of the endpoint, with and
   without exclusion rules, over session files that are written to between
   the runs.  recorded is the history of the runs: the sessions that a run
   exported and recorded in the marker and that were not modified since. *)

\* the rules a run is started with: none, or a rule on the word key
RunRules == {<<>>, <<<<Term("word", "key")>>>>}

RunFiles == {GoodFile, KeyFile}

MaxExportRuns == 3

RunsInit ==
    /\ ClassifyIdle
    /\ ParseIdle
    /\ TokenIdle
    /\ QuickIdle
    /\ pc = 0
    /\ rules \in RunRules
    /\ searchable_text = ""
    /\ excluded = FALSE
    /\ state_file \in {FileAbsent, Json(JObj([s1 |-> JInt(1)]))}
    /\ session_files \in
          {[i \in 1..Len(SessionIds) |->
               [id |-> SessionIds[i], modified |-> 1, lines |-> files[i]]] :
           files \in [1..Len(SessionIds) -> RunFiles]}
    /\ last_run = [op |-> "none"]
    /\ recorded = {}
    /\ runs = <<>>

\* the sessions the run r exported and recorded: a run that was ended by
\* an exception has written nothing
RecordedBy(r) ==
    IF r.last_run.raised # "" \/ r.state_file.kind # "json" THEN {}
    ELSE Range(r.last_run.exported) \cap DOMAIN SessionsKey(r.state_file)

\* the export run r has ended
RunEnded(r) ==
    /\ pc < MaxExportRuns
    /\ pc' = pc + 1
    /\ state_file' = r.state_file
    /\ last_run' = r.last_run
    /\ recorded' = recorded \cup RecordedBy(r)
    /\ UNCHANGED <<session_files, runs, rules, searchable_text, excluded,
                   classifyVars, parseVars, tokenVars, quickVars>>

\* the CLI is started with the rules file of its command line
CmdExportRun ==
    \E since \in {"all", "last"}, rs \in RunRules, facts \in {AccessFacts} :
        \E r \in {cmd_export_with_rules(state_file, session_files, since, rs,
                                        facts)} : RunEnded(r)

\* the endpoint has the rules of the configuration of the server
BulkExportRun ==
    \E since \in {"all", "last"}, facts \in {AccessFacts} :
        \E r \in {bulk_export_with_rules(state_file, session_files, since,
                                         rules, facts)} : RunEnded(r)

\* a session file is written to between two runs: its mtime grows
SessionWritten ==
    /\ pc < MaxExportRuns
    /\ \E i \in 1..Len(session_files) :
          /\ session_files[i].modified < MaxTime
          /\ session_files' = [session_files EXCEPT ![i].modified = @ + 1]
          /\ recorded' = recorded \ {session_files[i].id}
    /\ last_run' = [op |-> "none"]
    /\ UNCHANGED <<pc, state_file, runs, rules, searchable_text, excluded,
                   classifyVars, parseVars, tokenVars, quickVars>>

RunsNext == CmdExportRun \/ BulkExportRun \/ SessionWritten

SpecRuns == RunsInit /\ [][RunsNext]_vars

\* the step is an export run in since-last mode
SinceLastRunEnds ==
    /\ pc' = pc + 1
    /\ last_run'.op \in {"cmd_export", "bulk_export"}
    /\ last_run'.since = "last"

\* the recorded sessions whose entry the marker still holds
StillHeld ==
    IF state_file.kind # "json" THEN {}
    ELSE recorded \cap DOMAIN SessionsKey(state_file)

\* C28: over any sequence of export runs (CLI or API, since-all or
\* since-last, with or without exclusion rules), a session that some run
\* exported and recorded in the marker, and whose file has not been
\* modified since, is never exported again by a later since-last run.
C28_RecordedNeverExportedAgain ==
    [][SinceLastRunEnds => Range(last_run'.exported) \cap recorded = {}]_vars

\* what the runs do keep: a since-last run exports no recorded session
\* whose entry the marker still holds, and only a since-all run of the CLI
\* takes the entry of a recorded session out of the marker
C28_ExportedAgainOnlyAfterCliSinceAll ==
    [][/\ SinceLastRunEnds => Range(last_run'.exported) \cap StillHeld = {}
       /\ (pc' = pc + 1 /\ StillHeld # {}
           /\ ~(StillHeld \subseteq DOMAIN SessionsKey(state_file')))
             => last_run'.op = "cmd_export" /\ last_run'.since = "all"]_vars

\* the third run, in since-last mode, exports the first session again: the
\* file was never written to, and the marker the run found, written by a
\* since-all run of the CLI under the rule, holds the second session alone
C28_ExportedAgainAfterEntryDropped ==
    /\ pc = 3
    /\ last_run.op = "bulk_export"
    /\ last_run.since = "last"
    /\ last_run.exported = <<"s1">>
    /\ session_files[1].modified = 1
    /\ HasSchema(last_run.before)
    /\ DOMAIN SessionsKey(last_run.before) = {"s2"}
    /\ rules = <<>>

---------------------------------------------------------------------------
(* Two export runs that overlap in time.  A run reads the marker and goes
   through the sessions (Begin); a run that exported something writes the
   marker: _write_state reads the file again (ReadAgain), and both writers
   open it for writing, which empties it (Open), and dump their state into
   it (Dump).  The steps of the two runs interleave, and the session files
   are written to meanwhile. *)

RunIds == {1, 2}

NewRun(op) ==
    [op |-> op, since |-> "", pc |-> "idle", exported |-> <<>>,
     entries |-> EmptyDict, own |-> EmptyDict, read |-> FileAbsent,
     raised |-> "", overlapped |-> FALSE]

\* the file between open(..., "w") and json.dump: empty, which is no JSON
Truncated == Malformed

OverlapInit ==
    /\ ClassifyIdle
    /\ RulesIdle
    /\ ParseIdle
    /\ TokenIdle
    /\ QuickIdle
    /\ pc = 0
    /\ state_file \in
          {FileAbsent,
           _save_state(JObj([s1 |-> JInt(1), s2 |-> JInt(1)]), 2, OutDir)}
    /\ session_files =
          [i \in 1..Len(SessionIds) |->
              [id |-> SessionIds[i], modified |-> 1, lines |-> GoodFile]]
    /\ last_run = [op |-> "none"]
    /\ recorded = {}
    /\ runs \in {<<NewRun("bulk_export"), NewRun(op)>> :
                    op \in {"bulk_export", "cmd_export"}}

InProgress(run) == run.pc \notin {"idle", "done"}

\* the run i has begun and got as far as acc; it overlaps with the other
\* run if that one is in progress
Begun(i, since, acc, entries) ==
    /\ runs' = [j \in DOMAIN runs |->
                  IF j = i
                  THEN [runs[i] EXCEPT
                           !.since = since,
                           !.pc = IF acc.raised # "" \/ acc.manifest = <<>>
                                  THEN "done" ELSE "exported",
                           !.exported = acc.manifest,
                           !.entries = entries,
                           !.own = [sid \in Range(acc.manifest) |-> entries[sid]],
                           !.raised = acc.raised,
                           !.overlapped = \E k \in DOMAIN runs \ {i} :
                                              InProgress(runs[k])]
                  ELSE [runs[j] EXCEPT
                           !.overlapped = @ \/ InProgress(runs[j])]]
    /\ UNCHANGED <<pc, state_file, session_files, last_run, recorded,
                   classifyVars, ruleVars, parseVars, tokenVars, quickVars>>

\* bulk_export up to the end of its loop
BeginBulk(i) ==
    /\ runs[i].op = "bulk_export"
    /\ runs[i].pc = "idle"
    /\ \E since \in {"all", "last"} :
          \E acc \in {ApiLoop(session_files,
                              [manifest |-> <<>>,
                               new_sessions_map |-> EmptyDict],
                              since,
                              IF since = "last"
                              THEN Get(_read_state(state_file).v, "sessions",
                                       JObj(EmptyDict)).v
                              ELSE EmptyDict)} :
              Begun(i, since, [manifest |-> acc.manifest, raised |-> ""],
                    acc.new_sessions_map)

\* cmd_export up to the end of its loop: _load_state raises on a file that
\* is no JSON
CliBegun(i, since, state) ==
    IF IsRaise(state)
    THEN Begun(i, since, [manifest |-> <<>>, raised |-> state.exc], EmptyDict)
    ELSE \E acc \in {CliLoop(session_files,
                             [last_export |-> Get(state.v, "sessions",
                                                  JObj(EmptyDict)).v,
                              manifest |-> <<>>, raised |-> ""],
                             since)} :
             Begun(i, since, [manifest |-> acc.manifest, raised |-> acc.raised],
                   acc.last_export)

BeginCli(i) ==
    /\ runs[i].op = "cmd_export"
    /\ runs[i].pc = "idle"
    /\ \E since \in {"all", "last"} :
          \E state \in {IF since = "last" THEN _load_state(state_file)
                        ELSE JObj(EmptyDict)} :
              CliBegun(i, since, state)

\* _write_state: state = _read_state()
ReadAgain(i) ==
    /\ runs[i].op = "bulk_export"
    /\ runs[i].pc = "exported"
    /\ runs' = [runs EXCEPT ![i].pc = "read", ![i].read = state_file]
    /\ UNCHANGED <<pc, state_file, session_files, last_run, recorded,
                   classifyVars, ruleVars, parseVars, tokenVars, quickVars>>

\* open(_STATE_FILE, "w") in either writer
Open(i) ==
    /\ \/ runs[i].op = "bulk_export" /\ runs[i].pc = "read"
       \/ runs[i].op = "cmd_export" /\ runs[i].pc = "exported"
    /\ runs' = [runs EXCEPT ![i].pc = "opened"]
    /\ state_file' = Truncated
    /\ UNCHANGED <<pc, session_files, last_run, recorded,
                   classifyVars, ruleVars, parseVars, tokenVars, quickVars>>

\* json.dump(state, f): of _write_state, the state it read with the
\* sessions of the run merged in; of _save_state, the state of the run
Dump(i) ==
    /\ runs[i].pc = "opened"
    /\ runs' = [runs EXCEPT ![i].pc = "done"]
    /\ state_file' =
          IF runs[i].op = "bulk_export"
          THEN _write_state(runs[i].read, runs[i].entries,
                            Len(runs[i].exported))
          ELSE _save_state(JObj(runs[i].entries), Len(runs[i].exported), OutDir)
    /\ UNCHANGED <<pc, session_files, last_run, recorded,
                   classifyVars, ruleVars, parseVars, tokenVars, quickVars>>

\* a session file is written to while the runs are under way
WrittenMeanwhile ==
    /\ \E i \in DOMAIN runs : runs[i].pc # "done"
    /\ \E i \in 1..Len(session_files) :
          /\ session_files[i].modified < MaxTime
          /\ session_files' = [session_files EXCEPT ![i].modified = @ + 1]
    /\ UNCHANGED <<pc, state_file, last_run, recorded, runs,
                   classifyVars, ruleVars, parseVars, tokenVars, quickVars>>

OverlapNext ==
    \/ \E i \in RunIds : BeginBulk(i)
    \/ \E i \in RunIds : BeginCli(i)
    \/ \E i \in RunIds : ReadAgain(i)
    \/ \E i \in RunIds : Open(i)
    \/ \E i \in RunIds : Dump(i)
    \/ WrittenMeanwhile

SpecOverlap == OverlapInit /\ [][OverlapNext]_vars

BothDone == \A i \in RunIds : runs[i].pc = "done"

\* the marker holds for the session the entry that a run recorded for it
HoldsEntryOfRun(sid) ==
    /\ state_file.kind = "json"
    /\ sid \in DOMAIN SessionsKey(state_file)
    /\ \E i \in RunIds :
          /\ sid \in DOMAIN runs[i].own
          /\ SessionsKey(state_file)[sid] = runs[i].own[sid]

AllEntriesHeld ==
    \A i \in RunIds : \A sid \in DOMAIN runs[i].own : HoldsEntryOfRun(sid)

\* C29: when two export runs overlap in time (two bulk-export requests, or
\* a bulk-export request and a CLI export), then for every interleaving of
\* their marker reads and writes the marker file after both have finished
\* contains the per-session entry recorded by each run for every session
\* that either run exported.
C29_OverlappingRunsBothRecorded ==
    (BothDone /\ runs[1].overlapped) => AllEntriesHeld

\* what the runs do keep: two runs of which the second begins after the
\* first has finished leave the entries of both
C29_RunsInSequenceBothRecorded ==
    (BothDone /\ ~runs[1].overlapped) => AllEntriesHeld

\* two overlapping requests in since-last mode, the second of which
\* exported the second session at its new mtime: the marker holds the old
\* entry for it
C29_EntryOfOverlappingRunLost ==
    /\ BothDone
    /\ runs[1].overlapped
    /\ runs[1].op = "bulk_export" /\ runs[2].op = "bulk_export"
    /\ runs[1].since = "last" /\ runs[2].since = "last"
    /\ runs[1].own = [s1 |-> JInt(2)]
    /\ runs[2].own = [s1 |-> JInt(2), s2 |-> JInt(2)]
    /\ SessionsKey(state_file) = [s1 |-> JInt(2), s2 |-> JInt(1)]

\* a request that reads the file while the CLI has it open for writing
\* takes it for empty, and the entries of the CLI run are gone
C29_EntriesLostToTruncatedRead ==
    /\ BothDone
    /\ runs[1].overlapped
    /\ runs[2].op = "cmd_export"
    /\ runs[1].read = Truncated
    /\ DOMAIN runs[2].own = {"s1", "s2"}
    /\ DOMAIN runs[1].own = {"s1"}
    /\ DOMAIN SessionsKey(state_file) = {"s1"}

====
